---- MODULE Spec2Model ----
(***************************************************************************)
(* A model of python/coqtail.py: the sentence scanner, the comment         *)
(* stripper, the offset mapper and the stepping/rewind state machine of    *)
(* class Coqtail.                                                          *)
(*                                                                         *)
(* Text is a sequence of one-character strings; a buffer is a sequence of  *)
(* lines.  Lines and columns are zero-based as in the source, so line l    *)
(* of the buffer is lines[l + 1].  Python's None is the empty tuple.       *)
(***************************************************************************)
EXTENDS Integers, Sequences, FiniteSets, TLC

None == <<>>

\* ------------------------------------------------------------------------
\* Python string primitives, as the source uses them.
\* ------------------------------------------------------------------------

Min(a, b) == IF a <= b THEN a ELSE b

Max(a, b) == IF a >= b THEN a ELSE b

\* s[a:] for a >= 0
Drop(s, a) == IF a >= Len(s) THEN <<>> ELSE SubSeq(s, a + 1, Len(s))

\* s[a:b] for a, b >= 0
Slice(s, a, b) == IF a >= Min(b, Len(s)) THEN <<>> ELSE SubSeq(s, a + 1, Min(b, Len(s)))

\* s.find(sub): the zero-based index of the first occurrence, or -1
Find(s, sub) ==
    LET hits == {i \in 0..(Len(s) - Len(sub)) : SubSeq(s, i + 1, i + Len(sub)) = sub}
    IN  IF hits = {} THEN -1 ELSE CHOOSE i \in hits : \A j \in hits : i <= j

StartsWith(s, sub) == Len(s) >= Len(sub) /\ SubSeq(s, 1, Len(sub)) = sub

\* the characters str.lstrip() removes
Whitespace == {" ", "\t", "\n"}

RECURSIVE lstrip(_)
lstrip(s) == IF s # <<>> /\ Head(s) \in Whitespace THEN lstrip(Tail(s)) ELSE s

\* tuple order of Python on (line, col) pairs
PosLT(p, q) == p[1] < q[1] \/ (p[1] = q[1] /\ p[2] < q[2])

PosLE(p, q) == p = q \/ PosLT(p, q)

COMMENT_OPEN == <<"(", "*">>

COMMENT_CLOSE == <<"*", ")">>

QUOTE == <<"\"">>

DOT == <<".">>

\* ------------------------------------------------------------------------
\* _skip_block, _skip_str, _skip_comment
\* ------------------------------------------------------------------------

\* mutant: an end delimiter on the line is taken before any start delimiter
RECURSIVE skip_block_loop_first_end(_, _, _, _, _, _)
skip_block_loop_first_end(lines, sline, scol, nesting, estr, sstr) ==
    IF nesting <= 0 THEN <<sline, scol>>
    ELSE IF sline >= Len(lines) THEN None
    ELSE LET line == Drop(lines[sline + 1], scol)
             blk_end == Find(line, estr)
             blk_start == IF sstr # None THEN Find(line, sstr) ELSE -1
         IN  IF blk_end # -1
             THEN skip_block_loop_first_end(lines, sline, scol + blk_end + Len(estr),
                                  nesting - 1, estr, sstr)
             ELSE IF blk_start # -1
             THEN skip_block_loop_first_end(lines, sline, scol + blk_start + Len(sstr),
                                  nesting + 1, estr, sstr)
             ELSE skip_block_loop_first_end(lines, sline + 1, 0, nesting, estr, sstr)

\* one run of the while loop of _skip_block; sstr = None when no start
\* delimiter is given
RECURSIVE skip_block_loop(_, _, _, _, _, _)
skip_block_loop(lines, sline, scol, nesting, estr, sstr) ==
    IF nesting <= 0 THEN <<sline, scol>>
    ELSE IF sline >= Len(lines) THEN None
    ELSE LET line == Drop(lines[sline + 1], scol)
             blk_end == Find(line, estr)
             blk_start == IF sstr # None THEN Find(line, sstr) ELSE -1
         IN  IF blk_end # -1 /\ (blk_end < blk_start \/ blk_start = -1)
             THEN skip_block_loop(lines, sline, scol + blk_end + Len(estr),
                                  nesting - 1, estr, sstr)
             ELSE IF blk_start # -1
             THEN skip_block_loop(lines, sline, scol + blk_start + Len(sstr),
                                  nesting + 1, estr, sstr)
             ELSE skip_block_loop(lines, sline + 1, 0, nesting, estr, sstr)

skip_block(lines, sline, scol, estr, sstr) ==
    skip_block_loop(lines, sline, scol, 1, estr, sstr)

skip_str(lines, sline, scol) == skip_block(lines, sline, scol, QUOTE, None)

skip_comment(lines, sline, scol) ==
    skip_block(lines, sline, scol, COMMENT_CLOSE, COMMENT_OPEN)

\* ------------------------------------------------------------------------
\* _find_dot_after
\* ------------------------------------------------------------------------

\* mutant: the column of a terminating '.' is taken within the rest of the
\* line, the start column is not added
RECURSIVE find_dot_after_rest_column(_, _, _)
find_dot_after_rest_column(lines, sline, scol) ==
    IF sline >= Len(lines) THEN None
    ELSE LET line == Drop(lines[sline + 1], scol)
             dot_pos == Find(line, DOT)
             com_pos == Find(line, COMMENT_OPEN)
             com_end_post == Find(line, COMMENT_CLOSE)
             str_pos == Find(line, QUOTE)
         IN  IF com_pos = -1 /\ com_end_post # -1 THEN None
             ELSE IF com_pos = -1 /\ dot_pos = -1 /\ str_pos = -1
             THEN find_dot_after_rest_column(lines, sline + 1, 0)
             ELSE IF dot_pos = -1 \/ (0 <= com_pos /\ com_pos < dot_pos)
                                  \/ (0 <= str_pos /\ str_pos < dot_pos)
             THEN IF str_pos = -1 \/ (0 <= com_pos /\ com_pos < str_pos)
                  THEN LET com_end == skip_comment(lines, sline, scol + com_pos + 2)
                       IN  IF com_end = None THEN None
                           ELSE find_dot_after_rest_column(lines, com_end[1], com_end[2])
                  ELSE LET str_end == skip_str(lines, sline, scol + str_pos + 1)
                       IN  IF str_end = None THEN None
                           ELSE find_dot_after_rest_column(lines, str_end[1], str_end[2])
             ELSE IF Slice(line, dot_pos, dot_pos + 2) \in {<<".">>, <<".", " ">>}
             THEN <<sline, dot_pos>>
             ELSE IF Slice(line, dot_pos, dot_pos + 3) = <<".", ".", ".">>
             THEN <<sline, scol + dot_pos + 2>>
             ELSE IF Slice(line, dot_pos, dot_pos + 2) = <<".", ".">>
             THEN find_dot_after_rest_column(lines, sline, scol + dot_pos + 2)
             ELSE find_dot_after_rest_column(lines, sline, scol + dot_pos + 1)

\* mutant: a "*)" without its "(*" is read over
RECURSIVE find_dot_after_ignores_close(_, _, _)
find_dot_after_ignores_close(lines, sline, scol) ==
    IF sline >= Len(lines) THEN None
    ELSE LET line == Drop(lines[sline + 1], scol)
             dot_pos == Find(line, DOT)
             com_pos == Find(line, COMMENT_OPEN)
             com_end_post == Find(line, COMMENT_CLOSE)
             str_pos == Find(line, QUOTE)
         IN  IF FALSE THEN None
             ELSE IF com_pos = -1 /\ dot_pos = -1 /\ str_pos = -1
             THEN find_dot_after_ignores_close(lines, sline + 1, 0)
             ELSE IF dot_pos = -1 \/ (0 <= com_pos /\ com_pos < dot_pos)
                                  \/ (0 <= str_pos /\ str_pos < dot_pos)
             THEN IF str_pos = -1 \/ (0 <= com_pos /\ com_pos < str_pos)
                  THEN LET com_end == skip_comment(lines, sline, scol + com_pos + 2)
                       IN  IF com_end = None THEN None
                           ELSE find_dot_after_ignores_close(lines, com_end[1], com_end[2])
                  ELSE LET str_end == skip_str(lines, sline, scol + str_pos + 1)
                       IN  IF str_end = None THEN None
                           ELSE find_dot_after_ignores_close(lines, str_end[1], str_end[2])
             ELSE IF Slice(line, dot_pos, dot_pos + 2) \in {<<".">>, <<".", " ">>}
             THEN <<sline, scol + dot_pos>>
             ELSE IF Slice(line, dot_pos, dot_pos + 3) = <<".", ".", ".">>
             THEN <<sline, scol + dot_pos + 2>>
             ELSE IF Slice(line, dot_pos, dot_pos + 2) = <<".", ".">>
             THEN find_dot_after_ignores_close(lines, sline, scol + dot_pos + 2)
             ELSE find_dot_after_ignores_close(lines, sline, scol + dot_pos + 1)

\* mutant: "..." ends the sentence at its second dot
RECURSIVE find_dot_after_second_dot(_, _, _)
find_dot_after_second_dot(lines, sline, scol) ==
    IF sline >= Len(lines) THEN None
    ELSE LET line == Drop(lines[sline + 1], scol)
             dot_pos == Find(line, DOT)
             com_pos == Find(line, COMMENT_OPEN)
             com_end_post == Find(line, COMMENT_CLOSE)
             str_pos == Find(line, QUOTE)
         IN  IF com_pos = -1 /\ com_end_post # -1 THEN None
             ELSE IF com_pos = -1 /\ dot_pos = -1 /\ str_pos = -1
             THEN find_dot_after_second_dot(lines, sline + 1, 0)
             ELSE IF dot_pos = -1 \/ (0 <= com_pos /\ com_pos < dot_pos)
                                  \/ (0 <= str_pos /\ str_pos < dot_pos)
             THEN IF str_pos = -1 \/ (0 <= com_pos /\ com_pos < str_pos)
                  THEN LET com_end == skip_comment(lines, sline, scol + com_pos + 2)
                       IN  IF com_end = None THEN None
                           ELSE find_dot_after_second_dot(lines, com_end[1], com_end[2])
                  ELSE LET str_end == skip_str(lines, sline, scol + str_pos + 1)
                       IN  IF str_end = None THEN None
                           ELSE find_dot_after_second_dot(lines, str_end[1], str_end[2])
             ELSE IF Slice(line, dot_pos, dot_pos + 2) \in {<<".">>, <<".", " ">>}
             THEN <<sline, scol + dot_pos>>
             ELSE IF Slice(line, dot_pos, dot_pos + 3) = <<".", ".", ".">>
             THEN <<sline, scol + dot_pos + 1>>
             ELSE IF Slice(line, dot_pos, dot_pos + 2) = <<".", ".">>
             THEN find_dot_after_second_dot(lines, sline, scol + dot_pos + 2)
             ELSE find_dot_after_second_dot(lines, sline, scol + dot_pos + 1)

RECURSIVE find_dot_after(_, _, _)
find_dot_after(lines, sline, scol) ==
    IF sline >= Len(lines) THEN None
    ELSE LET line == Drop(lines[sline + 1], scol)
             dot_pos == Find(line, DOT)
             com_pos == Find(line, COMMENT_OPEN)
             com_end_post == Find(line, COMMENT_CLOSE)
             str_pos == Find(line, QUOTE)
         IN  IF com_pos = -1 /\ com_end_post # -1 THEN None
             ELSE IF com_pos = -1 /\ dot_pos = -1 /\ str_pos = -1
             THEN find_dot_after(lines, sline + 1, 0)
             ELSE IF dot_pos = -1 \/ (0 <= com_pos /\ com_pos < dot_pos)
                                  \/ (0 <= str_pos /\ str_pos < dot_pos)
             THEN IF str_pos = -1 \/ (0 <= com_pos /\ com_pos < str_pos)
                  THEN LET com_end == skip_comment(lines, sline, scol + com_pos + 2)
                       IN  IF com_end = None THEN None
                           ELSE find_dot_after(lines, com_end[1], com_end[2])
                  ELSE LET str_end == skip_str(lines, sline, scol + str_pos + 1)
                       IN  IF str_end = None THEN None
                           ELSE find_dot_after(lines, str_end[1], str_end[2])
             ELSE IF Slice(line, dot_pos, dot_pos + 2) \in {<<".">>, <<".", " ">>}
             THEN <<sline, scol + dot_pos>>
             ELSE IF Slice(line, dot_pos, dot_pos + 3) = <<".", ".", ".">>
             THEN <<sline, scol + dot_pos + 2>>
             ELSE IF Slice(line, dot_pos, dot_pos + 2) = <<".", ".">>
             THEN find_dot_after(lines, sline, scol + dot_pos + 2)
             ELSE find_dot_after(lines, sline, scol + dot_pos + 1)

\* ------------------------------------------------------------------------
\* _find_next_sentence, _get_message_range
\* ------------------------------------------------------------------------

bullets == <<"{", "}", "-", "+", "*">>

\* the for loop "Skip leading whitespace": the line and column of the first
\* non-blank character at or after (line, col), or None
RECURSIVE skip_whitespace(_, _, _)
skip_whitespace(lines, line, col) ==
    IF line >= Len(lines) THEN None
    ELSE LET rest == Drop(lines[line + 1], col)
             first_line == lstrip(rest)
         IN  IF first_line # <<>>
             THEN <<line, col + Len(rest) - Len(first_line)>>
             ELSE skip_whitespace(lines, line + 1, 0)

\* mutant: a blank between two bullet characters is taken into the token
RECURSIVE bullet_run_over_blanks(_, _)
bullet_run_over_blanks(first, rest) ==
    IF rest # <<>> /\ Head(rest) \in {bullets[3], bullets[4], bullets[5], " "}
                   /\ (Head(rest) = first \/ (Head(rest) = " " /\ Len(rest) >= 2
                                                   /\ rest[2] = first))
    THEN 1 + bullet_run_over_blanks(first, Tail(rest))
    ELSE 0

\* mutant: '{' and '}' can be repeated too
RECURSIVE bullet_run_any_bullet(_, _)
bullet_run_any_bullet(first, rest) ==
    IF rest # <<>> /\ (\E i \in 1..Len(bullets) : Head(rest) = bullets[i])
                   /\ Head(rest) = first
    THEN 1 + bullet_run_any_bullet(first, Tail(rest))
    ELSE 0

\* "'-', '+', '*' can be repeated": how many characters after the first
\* repeat it
RECURSIVE bullet_run(_, _)
bullet_run(first, rest) ==
    IF rest # <<>> /\ Head(rest) \in {bullets[3], bullets[4], bullets[5]}
                   /\ Head(rest) = first
    THEN 1 + bullet_run(first, Tail(rest))
    ELSE 0

RECURSIVE find_next_sentence(_, _, _)
find_next_sentence(lines, sline, scol) ==
    LET at == skip_whitespace(lines, sline, scol)
    IN  IF at = None THEN None
        ELSE LET line == at[1]
                 col == at[2]
                 first_line == Drop(lines[line + 1], col)
             IN  IF StartsWith(first_line, COMMENT_OPEN)
                 THEN LET com_end == skip_comment(lines, line, col + 2)
                      IN  IF com_end = None THEN None
                          ELSE find_next_sentence(lines, com_end[1], com_end[2])
                 ELSE IF StartsWith(first_line, COMMENT_CLOSE) THEN None
                 ELSE IF \E i \in 1..Len(bullets) : first_line[1] = bullets[i]
                 THEN <<line, col + bullet_run(first_line[1], Tail(first_line))>>
                 ELSE find_dot_after(lines, line, col)

\* mutant: the span starts at the first character that is not blank
get_message_range_past_blanks(lines, after) ==
    LET end_pos == find_next_sentence(lines, after[1], after[2])
    IN  IF end_pos # None
        THEN [start |-> skip_whitespace(lines, after[1], after[2]), stop |-> end_pos]
        ELSE None

\* None, or the mapping {"start": after, "stop": end_pos}
get_message_range(lines, after) ==
    LET end_pos == find_next_sentence(lines, after[1], after[2])
    IN  IF end_pos # None THEN [start |-> after, stop |-> end_pos] ELSE None

\* ------------------------------------------------------------------------
\* _strip_comments, _adjust_offset, _pos_from_offset, _between
\* ------------------------------------------------------------------------

\* ------------------------------------------------------------------------
\* The loops of the scanner, one turn at a time
\* ------------------------------------------------------------------------

\* a loop that goes on at (sline, scol), and a loop that returns found
GoOn(sline, scol, nesting) ==
    [at |-> "running", sline |-> sline, scol |-> scol, nesting |-> nesting,
     found |-> None]

Returns(found) ==
    [at |-> "returned", sline |-> 0, scol |-> 0, nesting |-> 0, found |-> found]

\* one turn of "while nesting > 0" of _skip_block, its test included
skip_block_turn(lines, sline, scol, nesting, estr, sstr) ==
    IF nesting <= 0 THEN Returns(<<sline, scol>>)
    ELSE IF sline >= Len(lines) THEN Returns(None)
    ELSE LET line == Drop(lines[sline + 1], scol)
             blk_end == Find(line, estr)
             blk_start == IF sstr # None THEN Find(line, sstr) ELSE -1
         IN  IF blk_end # -1 /\ (blk_end < blk_start \/ blk_start = -1)
             THEN GoOn(sline, scol + blk_end + Len(estr), nesting - 1)
             ELSE IF blk_start # -1
             THEN GoOn(sline, scol + blk_start + Len(sstr), nesting + 1)
             ELSE GoOn(sline + 1, 0, nesting)

\* mutant: a '.' inside a name is found again and again
find_dot_after_turn_stays(lines, sline, scol) ==
    IF sline >= Len(lines) THEN Returns(None)
    ELSE LET line == Drop(lines[sline + 1], scol)
             dot_pos == Find(line, DOT)
             com_pos == Find(line, COMMENT_OPEN)
             com_end_post == Find(line, COMMENT_CLOSE)
             str_pos == Find(line, QUOTE)
         IN  IF com_pos = -1 /\ com_end_post # -1 THEN Returns(None)
             ELSE IF com_pos = -1 /\ dot_pos = -1 /\ str_pos = -1
             THEN GoOn(sline + 1, 0, 0)
             ELSE IF dot_pos = -1 \/ (0 <= com_pos /\ com_pos < dot_pos)
                                  \/ (0 <= str_pos /\ str_pos < dot_pos)
             THEN IF str_pos = -1 \/ (0 <= com_pos /\ com_pos < str_pos)
                  THEN LET com_end == skip_comment(lines, sline, scol + com_pos + 2)
                       IN  IF com_end = None THEN Returns(None)
                           ELSE GoOn(com_end[1], com_end[2], 0)
                  ELSE LET str_end == skip_str(lines, sline, scol + str_pos + 1)
                       IN  IF str_end = None THEN Returns(None)
                           ELSE GoOn(str_end[1], str_end[2], 0)
             ELSE IF Slice(line, dot_pos, dot_pos + 2) \in {<<".">>, <<".", " ">>}
             THEN Returns(<<sline, scol + dot_pos>>)
             ELSE IF Slice(line, dot_pos, dot_pos + 3) = <<".", ".", ".">>
             THEN Returns(<<sline, scol + dot_pos + 2>>)
             ELSE IF Slice(line, dot_pos, dot_pos + 2) = <<".", ".">>
             THEN GoOn(sline, scol + dot_pos + 2, 0)
             ELSE GoOn(sline, scol + dot_pos, 0)

\* one turn of "while sline < max_line" of _find_dot_after, its test included
find_dot_after_turn(lines, sline, scol) ==
    IF sline >= Len(lines) THEN Returns(None)
    ELSE LET line == Drop(lines[sline + 1], scol)
             dot_pos == Find(line, DOT)
             com_pos == Find(line, COMMENT_OPEN)
             com_end_post == Find(line, COMMENT_CLOSE)
             str_pos == Find(line, QUOTE)
         IN  IF com_pos = -1 /\ com_end_post # -1 THEN Returns(None)
             ELSE IF com_pos = -1 /\ dot_pos = -1 /\ str_pos = -1
             THEN GoOn(sline + 1, 0, 0)
             ELSE IF dot_pos = -1 \/ (0 <= com_pos /\ com_pos < dot_pos)
                                  \/ (0 <= str_pos /\ str_pos < dot_pos)
             THEN IF str_pos = -1 \/ (0 <= com_pos /\ com_pos < str_pos)
                  THEN LET com_end == skip_comment(lines, sline, scol + com_pos + 2)
                       IN  IF com_end = None THEN Returns(None)
                           ELSE GoOn(com_end[1], com_end[2], 0)
                  ELSE LET str_end == skip_str(lines, sline, scol + str_pos + 1)
                       IN  IF str_end = None THEN Returns(None)
                           ELSE GoOn(str_end[1], str_end[2], 0)
             ELSE IF Slice(line, dot_pos, dot_pos + 2) \in {<<".">>, <<".", " ">>}
             THEN Returns(<<sline, scol + dot_pos>>)
             ELSE IF Slice(line, dot_pos, dot_pos + 3) = <<".", ".", ".">>
             THEN Returns(<<sline, scol + dot_pos + 2>>)
             ELSE IF Slice(line, dot_pos, dot_pos + 2) = <<".", ".">>
             THEN GoOn(sline, scol + dot_pos + 2, 0)
             ELSE GoOn(sline, scol + dot_pos + 1, 0)

\* one turn of "while True" of _find_next_sentence; the turn that leaves the
\* loop goes on to the bullet test and the dot search
find_next_sentence_turn(lines, sline, scol) ==
    LET at == skip_whitespace(lines, sline, scol)
    IN  IF at = None THEN Returns(None)
        ELSE LET line == at[1]
                 col == at[2]
                 first_line == Drop(lines[line + 1], col)
             IN  IF StartsWith(first_line, COMMENT_OPEN)
                 THEN LET com_end == skip_comment(lines, line, col + 2)
                      IN  IF com_end = None THEN Returns(None)
                          ELSE GoOn(com_end[1], com_end[2], 0)
                 ELSE IF StartsWith(first_line, COMMENT_CLOSE) THEN Returns(None)
                 ELSE IF \E i \in 1..Len(bullets) : first_line[1] = bullets[i]
                 THEN Returns(<<line, col + bullet_run(first_line[1], Tail(first_line))>>)
                 ELSE Returns(find_dot_after(lines, line, col))

\* " ".join(parts)
RECURSIVE join_space(_)
join_space(parts) ==
    IF parts = <<>> THEN <<>>
    ELSE IF Len(parts) = 1 THEN parts[1]
    ELSE parts[1] \o <<" ">> \o join_space(Tail(parts))

\* mutant: the closing delimiter is not counted in the length of a comment
RECURSIVE strip_loop_short_span(_, _, _, _, _)
strip_loop_short_span(msg, off, nesting, nocom, com_pos) ==
    IF msg = <<>> THEN <<nocom, com_pos>>
    ELSE LET start == Find(msg, COMMENT_OPEN)
             end == Find(msg, COMMENT_CLOSE)
         IN  IF start = -1 /\ end = -1
             THEN <<Append(nocom, msg), com_pos>>
             ELSE IF start # -1 /\ (start < end \/ end = -1)
             THEN strip_loop_short_span(Drop(msg, start + 2), off + start + 2, nesting + 1,
                             IF nesting = 0 THEN Append(nocom, Slice(msg, 0, start))
                                            ELSE nocom,
                             IF nesting = 0 THEN Append(com_pos, <<off + start, 0>>)
                                            ELSE com_pos)
             ELSE strip_loop_short_span(Drop(msg, end + 2), off + end + 2, nesting - 1, nocom,
                             IF nesting - 1 = 0
                             THEN [com_pos EXCEPT ![Len(com_pos)] =
                                      <<@[1], off + end - @[1]>>]
                             ELSE com_pos)

\* mutant: a comment inside a comment is recorded too
RECURSIVE strip_loop_counts_nested(_, _, _, _, _)
strip_loop_counts_nested(msg, off, nesting, nocom, com_pos) ==
    IF msg = <<>> THEN <<nocom, com_pos>>
    ELSE LET start == Find(msg, COMMENT_OPEN)
             end == Find(msg, COMMENT_CLOSE)
         IN  IF start = -1 /\ end = -1
             THEN <<Append(nocom, msg), com_pos>>
             ELSE IF start # -1 /\ (start < end \/ end = -1)
             THEN strip_loop_counts_nested(Drop(msg, start + 2), off + start + 2, nesting + 1,
                             IF nesting = 0 THEN Append(nocom, Slice(msg, 0, start))
                                            ELSE nocom,
                             Append(com_pos, <<off + start, 0>>))
             ELSE strip_loop_counts_nested(Drop(msg, end + 2), off + end + 2, nesting - 1, nocom,
                             IF nesting - 1 = 0
                             THEN [com_pos EXCEPT ![Len(com_pos)] =
                                      <<@[1], off + end + 2 - @[1]>>]
                             ELSE com_pos)

\* the while loop of _strip_comments; com_pos holds <<offset, length>> pairs
RECURSIVE strip_loop(_, _, _, _, _)
strip_loop(msg, off, nesting, nocom, com_pos) ==
    IF msg = <<>> THEN <<nocom, com_pos>>
    ELSE LET start == Find(msg, COMMENT_OPEN)
             end == Find(msg, COMMENT_CLOSE)
         IN  IF start = -1 /\ end = -1
             THEN <<Append(nocom, msg), com_pos>>
             ELSE IF start # -1 /\ (start < end \/ end = -1)
             THEN strip_loop(Drop(msg, start + 2), off + start + 2, nesting + 1,
                             IF nesting = 0 THEN Append(nocom, Slice(msg, 0, start))
                                            ELSE nocom,
                             IF nesting = 0 THEN Append(com_pos, <<off + start, 0>>)
                                            ELSE com_pos)
             ELSE strip_loop(Drop(msg, end + 2), off + end + 2, nesting - 1, nocom,
                             IF nesting - 1 = 0
                             THEN [com_pos EXCEPT ![Len(com_pos)] =
                                      <<@[1], off + end + 2 - @[1]>>]
                             ELSE com_pos)

\* <<no_comments, com_pos>>
strip_comments(msg) ==
    LET r == strip_loop(msg, 0, 0, <<>>, <<>>)
    IN  <<join_space(r[1]), r[2]>>

\* mutant: the space that replaces a comment is not counted
RECURSIVE adjust_offset_loop_no_space(_, _, _, _)
adjust_offset_loop_no_space(start, end, com_pos, i) ==
    IF i > Len(com_pos) THEN <<start, end>>
    ELSE LET coff == com_pos[i][1]
             clen == com_pos[i][2]
         IN  adjust_offset_loop_no_space(IF coff <= start THEN start + clen ELSE start,
                                         IF coff <= end THEN end + clen ELSE end,
                                         com_pos, i + 1)

\* the for loop of _adjust_offset over com_pos[i..]
RECURSIVE adjust_offset_loop(_, _, _, _)
adjust_offset_loop(start, end, com_pos, i) ==
    IF i > Len(com_pos) THEN <<start, end>>
    ELSE LET coff == com_pos[i][1]
             clen == com_pos[i][2]
         IN  adjust_offset_loop(IF coff <= start THEN start + clen - 1 ELSE start,
                                IF coff <= end THEN end + clen - 1 ELSE end,
                                com_pos, i + 1)

adjust_offset(start, end, com_pos) == adjust_offset_loop(start, end, com_pos, 1)

\* msg.split("\n")
RECURSIVE split_newline(_)
split_newline(msg) ==
    LET nl == Find(msg, <<"\n">>)
    IN  IF nl = -1 THEN <<msg>>
        ELSE <<Slice(msg, 0, nl)>> \o split_newline(Drop(msg, nl + 1))

pos_from_offset(col, msg, offset) ==
    LET ls == split_newline(Slice(msg, 0, offset))
        line == Len(ls) - 1
    IN  <<line, Len(ls[Len(ls)]) + (IF line = 0 THEN col ELSE 0)>>

\* "\n".join(parts)
RECURSIVE join_newline(_)
join_newline(parts) ==
    IF parts = <<>> THEN <<>>
    ELSE IF Len(parts) = 1 THEN parts[1]
    ELSE parts[1] \o <<"\n">> \o join_newline(Tail(parts))

\* the text of buf from start to end, both included
between(buf, start, end) ==
    LET sline == start[1]
        scol == start[2]
        eline == end[1]
        ecol == end[2]
        sel == Slice(buf, sline, eline + 1)
    IN  join_newline([idx \in 1..Len(sel) |->
            LET lcol == IF idx - 1 = 0 THEN scol ELSE 0
                rcol == IF idx - 1 = eline - sline THEN ecol + 1 ELSE Len(sel[idx])
            IN  Slice(sel[idx], lcol, rcol)])

\* ------------------------------------------------------------------------
\* Bounds of the model and the documents it is run on
\* ------------------------------------------------------------------------

\* the prover reports at most this many extra rewound steps
MaxExtra == 1

\* the user asks rewind() for at most this many steps
MaxSteps == 2

\* the prover's error offsets are at most this
MaxErrOff == 2

\* the floor of the ghost counter balance is -MaxDebt
MaxDebt == 2

\* the longest text of the exhaustive scanner runs
MaxTextLen == 4

DocAB == << <<"a", ".", " ", "b", ".">> >>

DocAC == << <<"a", ".", " ", "c", ".">> >>

DocCom == << <<"a", ".">>, <<"(", "*", " ", "c", "*", ")", "b", ".", " ", "-">> >>

DocOpen == << <<"a", ".", " ", "(", "*", "b", ".">> >>

DocBlank == << <<>> >>

\* the contents the buffer takes
Docs == {DocAB, DocAC, DocCom, DocOpen, DocBlank}

\* the buffers the editor shows
Bufs == {1, 2}

\* every (line, col) of a character of buf, and the column after each line
Positions(buf) ==
    UNION {{<<l, c>> : c \in 0..Len(buf[l + 1])} : l \in 0..(Len(buf) - 1)}

\* ------------------------------------------------------------------------
\* The state
\* ------------------------------------------------------------------------

VARIABLES
    lines,       \* vim.current.buffer
    bufnr,       \* the buffer vimbufsync.sync() reports
    coqtop,      \* self.coqtop: None or <<"Coqtop">>
    saved_sync,  \* self.saved_sync: None or <<buf, pos>>, pos as saved_sync.pos()
    endpoints,   \* self.endpoints
    send_queue,  \* self.send_queue
    error_at,    \* self.error_at: None or <<start, stop>>
    pc,          \* "idle", "sending" (in the loop of send_until_fail), "done"
    ghost,       \* history kept for stating the properties (not program state)
    probe,       \* the last application of a function of the module to the buffer
    wait         \* call_and_wait() and wait_coqtop(), when looked at step by step

vars ==
    <<lines, bufnr, coqtop, saved_sync, endpoints, send_queue, error_at, pc, ghost,
      probe, wait>>

\* no call_and_wait() is looked at
NoWait == None

\* ------------------------------------------------------------------------
\* The prover (coqtop.py) and vimbufsync, as the class sees them
\* ------------------------------------------------------------------------

\* what call_and_wait(self.coqtop.goals) gives in show_goal(): an answer or
\* a CoqtopError
GoalsResponses == {"ok", "error"}

\* what call_and_wait(self.coqtop.rewind, steps) gives: (True, extra_steps),
\* (False, _) or a CoqtopError; goals is what the prover gives to the
\* show_goal() of the refresh() that follows an answer
RewindResponses ==
    {[kind |-> "ok", extra |-> e, goals |-> g] : e \in 0..MaxExtra, g \in GoalsResponses}
        \cup {[kind |-> "no", extra |-> 0, goals |-> g] : g \in GoalsResponses}
        \cup {[kind |-> "error", extra |-> 0, goals |-> "none"]}

ErrLocs ==
    {<<-1, -1>>} \cup {loc \in (0..MaxErrOff) \X (0..MaxErrOff) : loc[1] <= loc[2]}

\* what call_and_wait(self.coqtop.dispatch, ...) gives: (True, msg, _),
\* (False, msg, err_loc) or a CoqtopError
DispatchResponses ==
    {[kind |-> "ok", err_loc |-> <<-1, -1>>], [kind |-> "error", err_loc |-> <<-1, -1>>]}
        \cup {[kind |-> "fail", err_loc |-> loc] : loc \in ErrLocs}

\* the position a fresh BufferRevision reports while the buffer is unchanged
\* since it was taken: after every line of every document (line is 1-based)
unchanged_pos ==
    <<1 + CHOOSE n \in {Len(d) : d \in Docs} : \A d \in Docs : Len(d) <= n, 0>>

\* vimbufsync.sync()
curr_sync == <<bufnr, unchanged_pos>>

\* the first position where buffers a and b differ, the line 1-based as
\* BufferRevision.pos() counts it
RECURSIVE first_change(_, _, _)
first_change(a, b, l) ==
    IF l >= Len(a) \/ l >= Len(b) THEN <<l + 1, 0>>
    ELSE IF a[l + 1] = b[l + 1] THEN first_change(a, b, l + 1)
    ELSE LET x == a[l + 1]
             y == b[l + 1]
             same == {c \in 0..Min(Len(x), Len(y)) :
                         \A k \in 1..c : x[k] = y[k]}
         IN  <<l + 1, CHOOSE c \in same : \A d \in same : d <= c>>

\* ------------------------------------------------------------------------
\* The methods of class Coqtail, as functions of the object.  self holds
\* the fields of the object, exc (an exception is propagating: the rest of
\* the method is skipped), pc, and the ghost fields rt, balance and kept.
\* ------------------------------------------------------------------------

Self ==
    [coqtop |-> coqtop, saved_sync |-> saved_sync, endpoints |-> endpoints,
     send_queue |-> send_queue, error_at |-> error_at,
     exc |-> FALSE, pc |-> "idle",
     rt |-> None, balance |-> ghost.balance, kept |-> ghost.kept]

\* a failed "assert self.coqtop is not None"
raise(self) == [self EXCEPT !.exc = TRUE]

\* mutant: the error region is highlighted but not cleared
reset_color_keeps_error(self) == [self EXCEPT !.error_at = @]

\* reset_color(): the highlights are the editor's; the field it writes is
\* error_at
reset_color(self) == [self EXCEPT !.error_at = None]

\* _reset(); the ghost counters restart with the object
reset(self) ==
    reset_color([self EXCEPT !.saved_sync = None, !.endpoints = <<>>,
                             !.send_queue = <<>>, !.error_at = None,
                             !.balance = 0, !.kept = 0])

stop(self) == [reset(self) EXCEPT !.coqtop = None]

\* coqtail#Stop() of the plugin's Vim script: stops Coqtail for the buffer,
\* calling Coqtail().stop()
coqtail_Stop(self) == stop(self)

\* fail(err): "Print an error and stop Coqtail."
fail(self) == coqtail_Stop(self)

\* refresh(): show_goal() asks the prover for the goals and fails on a
\* CoqtopError, show_info() writes a panel, reset_color()
refresh(self, goals) ==
    reset_color(IF goals = "error" THEN fail(self) ELSE self)

\* start(): self.coqtop = CT.Coqtop(version, set_done)
start(self) == [self EXCEPT !.coqtop = <<"Coqtop">>]

\* mutant: the slice drops the first n entries, not the last
slice_from(s, n) ==
    IF n > 0 THEN Drop(s, n)
    ELSE IF n = 0 THEN <<>>
    ELSE Slice(s, 0, -n)

\* s[:-n]
slice_to_minus(s, n) ==
    IF n > 0 THEN Slice(s, 0, Max(0, Len(s) - n))
    ELSE IF n = 0 THEN <<>>
    ELSE Slice(s, 0, -n)

\* ghost: the prover reports n steps rewound while the stack held len
\* endpoints.  balance counts the reported steps (it stops at -MaxDebt: once
\* below zero it is no length any more), kept counts one endpoint for each
\* reported step as long as there is one
count_rewound(self, n, len) ==
    [self EXCEPT !.balance = Max(-MaxDebt, @ - n), !.kept = @ - Min(n, len)]

\* ghost: one sentence accepted
count_accepted(self) == [self EXCEPT !.balance = @ + 1, !.kept = @ + 1]

\* rewind(steps) gets as far as calling the prover
rewind_calls(self, steps) ==
    ~self.exc /\ self.coqtop # None /\ steps >= 1 /\ self.endpoints # <<>>

\* ghost: the answer of a call that was not made
NoCall == [kind |-> "none", extra |-> 0, goals |-> "none"]

\* mutant: the extra steps the prover reports are not taken off the stack
rewind_ignoring_extra(self, steps, resp) ==
    IF self.exc THEN self
    ELSE IF self.coqtop = None THEN raise(self)
    ELSE IF steps < 1 \/ self.endpoints = <<>> THEN self
    ELSE IF resp.kind = "error" THEN fail(self)
    ELSE IF resp.kind = "ok"
    THEN refresh(count_rewound(
                     [self EXCEPT !.endpoints = slice_to_minus(@, steps)],
                     steps + resp.extra, Len(self.endpoints)),
                 resp.goals)
    ELSE refresh(self, resp.goals)

\* mutant: the prover is asked also when there is no step to rewind
rewind_unguarded(self, steps, resp) ==
    IF self.exc THEN self
    ELSE IF self.coqtop = None THEN raise(self)
    ELSE IF self.endpoints = <<>> THEN self
    ELSE IF resp.kind = "error" THEN fail(self)
    ELSE IF resp.kind = "ok"
    THEN refresh(count_rewound(
                     [self EXCEPT !.endpoints = slice_to_minus(@, steps + resp.extra)],
                     steps + resp.extra, Len(self.endpoints)),
                 resp.goals)
    ELSE refresh(self, resp.goals)

\* mutant: a CoqtopError of the prover call does not stop Coqtail
rewind_error_ignored(self, steps, resp) ==
    IF self.exc THEN self
    ELSE IF self.coqtop = None THEN raise(self)
    ELSE IF steps < 1 \/ self.endpoints = <<>> THEN self
    ELSE IF resp.kind = "error" THEN self
    ELSE IF resp.kind = "ok"
    THEN refresh(count_rewound(
                     [self EXCEPT !.endpoints = slice_to_minus(@, steps + resp.extra)],
                     steps + resp.extra, Len(self.endpoints)),
                 resp.goals)
    ELSE refresh(self, resp.goals)

rewind(self, steps, resp) ==
    IF self.exc THEN self
    ELSE IF self.coqtop = None THEN raise(self)
    ELSE IF steps < 1 \/ self.endpoints = <<>> THEN self
    ELSE IF resp.kind = "error" THEN fail(self)
    ELSE IF resp.kind = "ok"
    THEN refresh(count_rewound(
                     [self EXCEPT !.endpoints = slice_to_minus(@, steps + resp.extra)],
                     steps + resp.extra, Len(self.endpoints)),
                 resp.goals)
    ELSE refresh(self, resp.goals)

\* mutant: an endpoint at the target itself is not counted
rewind_to_after(self, line, col, resp) ==
    IF self.exc THEN self
    ELSE LET steps_too_far ==
                 Cardinality({i \in 1..Len(self.endpoints) :
                                 PosLT(<<line, col>>, self.endpoints[i])})
             after == rewind(self, steps_too_far, resp)
         IN  [after EXCEPT !.rt = [pos |-> <<line, col>>, pre |-> self.endpoints,
                                   resp |-> IF rewind_calls(self, steps_too_far)
                                            THEN resp ELSE NoCall,
                                   post |-> after.endpoints,
                                   raised |-> after.exc]]

rewind_to(self, line, col, resp) ==
    IF self.exc THEN self
    ELSE LET steps_too_far ==
                 Cardinality({i \in 1..Len(self.endpoints) :
                                 PosLE(<<line, col>>, self.endpoints[i])})
             after == rewind(self, steps_too_far, resp)
         IN  [after EXCEPT !.rt = [pos |-> <<line, col>>, pre |-> self.endpoints,
                                   resp |-> IF rewind_calls(self, steps_too_far)
                                            THEN resp ELSE NoCall,
                                   post |-> after.endpoints,
                                   raised |-> after.exc]]

\* mutant: the buffer of the saved BufferRevision is not looked at
sync_ignores_buf(self, resp) ==
    IF self.exc THEN self
    ELSE LET done ==
                 IF self.saved_sync = None
                 THEN reset(self)
                 ELSE rewind_to(self, self.saved_sync[2][1] - 1,
                                self.saved_sync[2][2], resp)
         IN  IF done.exc THEN done ELSE [done EXCEPT !.saved_sync = curr_sync]

sync(self, resp) ==
    IF self.exc THEN self
    ELSE LET done ==
                 IF self.saved_sync = None \/ curr_sync[1] # self.saved_sync[1]
                 THEN reset(self)
                 ELSE rewind_to(self, self.saved_sync[2][1] - 1,
                                self.saved_sync[2][2], resp)
         IN  IF done.exc THEN done ELSE [done EXCEPT !.saved_sync = curr_sync]

\* "Get the location of the last '.'"
last_endpoint(self) ==
    IF self.endpoints # <<>> THEN self.endpoints[Len(self.endpoints)] ELSE <<0, 0>>

\* send_until_fail() up to its loop
send_until_fail(self) ==
    IF self.exc THEN self
    ELSE IF self.coqtop = None THEN raise(self)
    ELSE [self EXCEPT !.pc = "sending"]

step(self, resp) ==
    LET synced == sync(self, resp)
        to_send == get_message_range(lines, last_endpoint(synced))
    IN  IF synced.exc THEN synced
        ELSE IF to_send = None THEN synced
        ELSE send_until_fail([synced EXCEPT !.send_queue = Append(@, to_send)])

\* the while loop of to_cursor: the sentences it appends to send_queue
RECURSIVE sentences_to(_, _, _)
sentences_to(buf, after, limit) ==
    LET to_send == get_message_range(buf, after)
    IN  IF to_send # None /\ PosLE(to_send.stop, limit)
        THEN <<to_send>> \o sentences_to(buf, <<to_send.stop[1], to_send.stop[2] + 1>>, limit)
        ELSE <<>>

\* "Check if should rewind or advance": the test of to_cursor
to_cursor_rewinds(self, cursor, resp) ==
    LET synced == sync(self, resp)
        line == last_endpoint(synced)[1]
        col == last_endpoint(synced)[2]
    IN  /\ ~synced.exc
        /\ cursor[1] - 1 < line \/ (cursor[1] - 1 = line /\ cursor[2] < col)

\* mutant: the rewind is to the cursor itself
to_cursor_at_cursor(self, cursor, resp, resp2) ==
    LET synced == sync(self, resp)
        cline == cursor[1]
        ccol == cursor[2]
        line == last_endpoint(synced)[1]
        col == last_endpoint(synced)[2]
    IN  IF synced.exc THEN synced
        ELSE IF cline - 1 < line \/ (cline - 1 = line /\ ccol < col)
        THEN rewind_to(synced, cline - 1, ccol, resp2)
        ELSE send_until_fail(
                 [synced EXCEPT !.send_queue =
                     @ \o sentences_to(lines, <<line, col>>, <<cline - 1, ccol>>)])

to_cursor(self, cursor, resp, resp2) ==
    LET synced == sync(self, resp)
        cline == cursor[1]
        ccol == cursor[2]
        line == last_endpoint(synced)[1]
        col == last_endpoint(synced)[2]
    IN  IF synced.exc THEN synced
        ELSE IF cline - 1 < line \/ (cline - 1 = line /\ ccol < col)
        THEN rewind_to(synced, cline - 1, ccol + 2, resp2)
        ELSE send_until_fail(
                 [synced EXCEPT !.send_queue =
                     @ \o sentences_to(lines, <<line, col>>, <<cline - 1, ccol>>)])

\* mutant: the rewind is to column 3 of the first line
to_top_from_column_3(self, resp) == rewind_to(self, 0, 3, resp)

to_top(self, resp) == rewind_to(self, 0, 1, resp)

\* mutant: the offsets are not adjusted for the stripped comments
error_span_unadjusted(to_send, message, com_pos, err_loc) ==
    IF err_loc[1] = err_loc[2] /\ err_loc[2] = -1
    THEN <<to_send.start, to_send.stop>>
    ELSE LET line == to_send.start[1]
             col == to_send.start[2]
             loc == <<err_loc[1], err_loc[2]>>
             s == pos_from_offset(col, message, loc[1])
             e == pos_from_offset(col, message, loc[2])
         IN  <<(<<line + s[1], s[2]>>), (<<line + e[1], e[2]>>)>>

\* "Highlight error location"
error_span(to_send, message, com_pos, err_loc) ==
    IF err_loc[1] = err_loc[2] /\ err_loc[2] = -1
    THEN <<to_send.start, to_send.stop>>
    ELSE LET line == to_send.start[1]
             col == to_send.start[2]
             loc == adjust_offset(err_loc[1], err_loc[2], com_pos)
             s == pos_from_offset(col, message, loc[1])
             e == pos_from_offset(col, message, loc[2])
         IN  <<(<<line + s[1], s[2]>>), (<<line + e[1], e[2]>>)>>

\* mutant: a failed dispatch leaves the rest of the queue to be sent
send_one_keeps_queue(self, resp) ==
    LET to_send == Head(self.send_queue)
        popped == [reset_color(self) EXCEPT !.send_queue = Tail(@)]
        message == between(lines, to_send.start, to_send.stop)
        stripped == strip_comments(message)
    IN  IF resp.kind = "error" THEN [fail(popped) EXCEPT !.pc = "idle"]
        ELSE IF resp.kind = "ok"
        THEN count_accepted([popped EXCEPT !.endpoints =
                                Append(@, <<to_send.stop[1], to_send.stop[2] + 1>>)])
        ELSE [popped EXCEPT !.error_at = error_span(to_send, message, stripped[2],
                                                    resp.err_loc)]

\* one turn of the while loop of send_until_fail
send_one(self, resp) ==
    LET to_send == Head(self.send_queue)
        popped == [reset_color(self) EXCEPT !.send_queue = Tail(@)]
        message == between(lines, to_send.start, to_send.stop)
        stripped == strip_comments(message)
    IN  IF resp.kind = "error" THEN [fail(popped) EXCEPT !.pc = "idle"]
        ELSE IF resp.kind = "ok"
        THEN count_accepted([popped EXCEPT !.endpoints =
                                Append(@, <<to_send.stop[1], to_send.stop[2] + 1>>)])
        ELSE [popped EXCEPT !.send_queue = <<>>,
                            !.error_at = error_span(to_send, message, stripped[2],
                                                    resp.err_loc)]

\* send_until_fail() after its loop
send_done(self, goals) == [refresh(self, goals) EXCEPT !.pc = "idle"]

\* ------------------------------------------------------------------------
\* Actions: one per call of the editor, one per turn of the send loop
\* ------------------------------------------------------------------------

NoRun == None

\* the ghost history between two calls: only the counters and whether the
\* last call was sync() are kept
Idle(prev, balance, kept) ==
    [op |-> "-", prev |-> prev, outcome |-> "-", pre |-> <<>>,
     arg |-> None, rt |-> None, balance |-> balance, kept |-> kept, run |-> NoRun]

Init ==
    /\ lines \in Docs
    /\ bufnr = 1
    /\ coqtop = None
    /\ saved_sync = None
    /\ endpoints = <<>>
    /\ send_queue = <<>>
    /\ error_at = None
    /\ pc = "idle"
    /\ ghost = Idle("-", 0, 0)
    /\ probe = None
    /\ wait = NoWait

\* the object after a call of op, which leaves it as s: the call is inside
\* the loop of send_until_fail (pc = "sending") or over (pc = "done")
Commit(s, op, arg) ==
    /\ coqtop' = s.coqtop
    /\ saved_sync' = s.saved_sync
    /\ endpoints' = s.endpoints
    /\ send_queue' = s.send_queue
    /\ error_at' = s.error_at
    /\ pc' = IF ~s.exc /\ s.pc = "sending" THEN "sending" ELSE "done"
    /\ ghost' = [op |-> op, prev |-> ghost.prev,
                 outcome |-> IF s.exc THEN "raised"
                             ELSE IF s.pc = "sending" THEN "running" ELSE "returned",
                 pre |-> endpoints, arg |-> arg, rt |-> s.rt,
                 balance |-> s.balance, kept |-> s.kept,
                 run |-> IF ~s.exc /\ s.pc = "sending"
                         THEN [pre |-> s.endpoints, queue |-> s.send_queue,
                               results |-> <<>>, goals |-> "none",
                               err_loc |-> None]
                         ELSE NoRun]
    /\ UNCHANGED <<lines, bufnr, probe, wait>>

\* the editor only offers the commands of a running Coqtail
Callable == pc = "idle" /\ coqtop # None

Start ==
    /\ pc = "idle"
    /\ Commit(start(Self), "start", None)

Stop ==
    /\ pc = "idle"
    /\ Commit(stop(Self), "stop", None)

Step ==
    /\ Callable
    /\ \E resp \in RewindResponses : Commit(step(Self, resp), "step", None)

Rewind ==
    /\ Callable
    /\ \E steps \in 0..MaxSteps, resp \in RewindResponses :
           Commit(rewind(Self, steps, resp), "rewind",
                  <<steps, IF rewind_calls(Self, steps) THEN resp ELSE NoCall>>)

RewindTo ==
    /\ Callable
    /\ \E pos \in Positions(lines), resp \in RewindResponses :
           Commit(rewind_to(Self, pos[1], pos[2], resp), "rewind_to", pos)

\* vim.current.window.cursor: the line 1-based, the column 0-based
Cursors ==
    UNION {{<<l, c>> : c \in 0..Max(0, Len(lines[l]) - 1)} : l \in 1..Len(lines)}

\* the answers the prover can give to the rewind of to_cursor() itself: none
\* when it is not asked
to_cursor_answers(self, cursor, resp) ==
    LET synced == sync(self, resp)
        at == last_endpoint(synced)
    IN  IF ~synced.exc /\ PosLT(<<cursor[1] - 1, cursor[2]>>, at)
           /\ rewind_calls(synced, Cardinality({i \in 1..Len(synced.endpoints) :
                   PosLE(<<cursor[1] - 1, cursor[2] + 2>>, synced.endpoints[i])}))
        THEN RewindResponses ELSE {NoCall}

ToCursor ==
    /\ Callable
    /\ \E cursor \in Cursors, resp \in RewindResponses :
           \E resp2 \in to_cursor_answers(Self, cursor, resp) :
               Commit(to_cursor(Self, cursor, resp, resp2), "to_cursor",
                      [cursor |-> cursor,
                       rewinds |-> to_cursor_rewinds(Self, cursor, resp)])

ToTop ==
    /\ Callable
    /\ \E resp \in RewindResponses : Commit(to_top(Self, resp), "to_top", None)

Sync ==
    /\ Callable
    /\ \E resp \in RewindResponses : Commit(sync(Self, resp), "sync", None)

\* a turn of the loop of send_until_fail: the prover answers one dispatch
SendNext ==
    /\ pc = "sending"
    /\ send_queue # <<>>
    /\ \E resp \in DispatchResponses :
           LET s == send_one([Self EXCEPT !.pc = "sending", !.rt = ghost.rt], resp)
           IN  /\ coqtop' = s.coqtop
               /\ saved_sync' = s.saved_sync
               /\ endpoints' = s.endpoints
               /\ send_queue' = s.send_queue
               /\ error_at' = s.error_at
               /\ pc' = IF s.pc = "sending" THEN "sending" ELSE "done"
               /\ ghost' = [ghost EXCEPT
                               !.outcome = IF s.pc = "sending" THEN "running"
                                           ELSE "returned",
                               !.balance = s.balance, !.kept = s.kept,
                               !.run.results = Append(@, resp.kind),
                               !.run.err_loc = IF resp.kind = "fail"
                                               THEN resp.err_loc ELSE @]
    /\ UNCHANGED <<lines, bufnr, probe, wait>>

\* the loop of send_until_fail ends, the queue is empty: the panels are
\* refreshed
SendDone ==
    /\ pc = "sending"
    /\ send_queue = <<>>
    /\ \E goals \in GoalsResponses :
           LET s == send_done([Self EXCEPT !.pc = "sending", !.rt = ghost.rt], goals)
           IN  /\ coqtop' = s.coqtop
               /\ saved_sync' = s.saved_sync
               /\ endpoints' = s.endpoints
               /\ send_queue' = s.send_queue
               /\ error_at' = s.error_at
               /\ pc' = "done"
               /\ ghost' = [ghost EXCEPT !.outcome = "returned",
                                         !.balance = s.balance, !.kept = s.kept,
                                         !.run.goals = goals,
                                         !.run.err_loc = None]
    /\ UNCHANGED <<lines, bufnr, probe, wait>>

\* the call is over and the editor is free again; of the ghost history only
\* the counters and whether the call was sync() are kept
Return ==
    /\ pc = "done"
    /\ pc' = "idle"
    /\ ghost' = Idle(IF ghost.op = "sync" THEN "sync" ELSE "-",
                     ghost.balance, ghost.kept)
    /\ UNCHANGED <<lines, bufnr, coqtop, saved_sync, endpoints, send_queue, error_at, probe, wait>>

\* the user edits the buffer between two calls; the saved BufferRevision
\* then reports the earliest change since it was taken
Edit ==
    /\ pc = "idle"
    /\ \E d \in Docs \ {lines} :
           /\ lines' = d
           /\ saved_sync' =
                  IF saved_sync = None THEN None
                  ELSE LET at == first_change(lines, d, 0)
                       IN  <<saved_sync[1],
                             IF PosLT(at, saved_sync[2]) THEN at ELSE saved_sync[2]>>
    /\ ghost' = Idle("-", ghost.balance, ghost.kept)
    /\ UNCHANGED <<bufnr, coqtop, endpoints, send_queue, error_at, pc, probe, wait>>

\* the user moves to another buffer between two calls
SwitchBuffer ==
    /\ pc = "idle"
    /\ \E b \in Bufs \ {bufnr} : bufnr' = b
    /\ ghost' = Idle("-", ghost.balance, ghost.kept)
    /\ UNCHANGED <<lines, coqtop, saved_sync, endpoints, send_queue, error_at, pc, probe, wait>>

Next ==
    \/ Start
    \/ Stop
    \/ Step
    \/ Rewind
    \/ RewindTo
    \/ ToCursor
    \/ ToTop
    \/ Sync
    \/ SendNext
    \/ SendDone
    \/ Return
    \/ Edit
    \/ SwitchBuffer

Spec == Init /\ [][Next]_vars

\* the calls of step() and rewind() alone, on a buffer the user edits
NextStepRewind ==
    \/ Start
    \/ Step
    \/ Rewind
    \/ SendNext
    \/ SendDone
    \/ Return
    \/ Edit

StepRewindSpec == Init /\ [][NextStepRewind]_vars

\* ------------------------------------------------------------------------
\* The functions of the module applied to a buffer on their own: the
\* scanner, then the stripper on the sentence found, then the offset
\* mapper on the comments stripped
\* ------------------------------------------------------------------------

Intros ==
    << <<"i", "n", "t", "r", "o", "s", ".", " ",
         "r", "e", "f", "l", "e", "x", "i", "v", "i", "t", "y", ".">> >>

CommentFoo == << <<"(", "*", " ", "c", " ", "*", ")", " ", "f", "o", "o", ".">> >>

BulletFoo == << <<"-", " ", "-", " ", "f", "o", "o", ".">> >>

BulletRun == << <<"-", "-", " ", "f", "o", "o", ".">> >>

Comment6Foo == << <<"(", "*", " ", "c", "*", ")", "f", "o", "o", ".">> >>

Ellipsis == << <<"a", ".", ".", ".", " ", "b", ".">> >>

ScanAlphabet == {"a", ".", " ", "(", "*", ")", "\"", "-", "\n"}

\* every text of at most MaxTextLen characters, as the lines of a buffer
ShortBuffers ==
    {split_newline(t) : t \in UNION {[1..n -> ScanAlphabet] : n \in 0..MaxTextLen}}

\* a sentence with a string that holds "*)"
StringClose == << <<"a", " ", "\"", "*", ")", "\"", " ", "b", ".">> >>

\* two sentences with a tab between them
TabAfterDot == << <<"a", ".", "\t", "b", ".">> >>

\* a brace twice, and a bullet after a comment and blanks
BraceTwice == << <<"{", "{", " ", "a", ".">> >>

BulletAfterComment == << <<" ", "(", "*", "-", "*", ")">>, <<" ", "+", "+", "-", "a", ".">> >>

ScanDocs ==
    {Intros, CommentFoo, BulletFoo, BulletRun, Comment6Foo, Ellipsis, StringClose,
     TabAfterDot, BraceTwice, BulletAfterComment}
        \cup Docs \cup ShortBuffers

InitScan ==
    /\ lines \in ScanDocs
    /\ bufnr = 1
    /\ coqtop = None
    /\ saved_sync = None
    /\ endpoints = <<>>
    /\ send_queue = <<>>
    /\ error_at = None
    /\ pc = "idle"
    /\ ghost = Idle("-", 0, 0)
    /\ probe = None
    /\ wait = NoWait

\* _get_message_range(vim.current.buffer, after)
GetMessageRange ==
    /\ \E after \in Positions(lines) :
           probe' = [fn |-> "get_message_range", after |-> after,
                     to_send |-> get_message_range(lines, after),
                     message |-> <<>>, no_comments |-> <<>>, com_pos |-> <<>>,
                     err_loc |-> None, adjusted |-> None]
    /\ UNCHANGED <<lines, bufnr, coqtop, saved_sync, endpoints, send_queue, error_at,
                   pc, ghost, wait>>

\* message = _between(start, stop); no_comments, com_pos = _strip_comments(message)
StripComments ==
    /\ probe # None
    /\ probe.fn = "get_message_range"
    /\ probe.to_send # None
    /\ LET message == between(lines, probe.to_send.start, probe.to_send.stop)
           stripped == strip_comments(message)
       IN  probe' = [probe EXCEPT !.fn = "strip_comments", !.message = message,
                                  !.no_comments = stripped[1],
                                  !.com_pos = stripped[2]]
    /\ UNCHANGED <<lines, bufnr, coqtop, saved_sync, endpoints, send_queue, error_at,
                   pc, ghost, wait>>

\* loc_s, loc_e = _adjust_offset(loc_s, loc_e, com_pos)
AdjustOffset ==
    /\ probe # None
    /\ probe.fn = "strip_comments"
    /\ probe.com_pos # <<>>
    /\ \E err_loc \in ErrLocs \ {<<-1, -1>>} :
           probe' = [probe EXCEPT !.fn = "adjust_offset", !.err_loc = err_loc,
                         !.adjusted = adjust_offset(err_loc[1], err_loc[2],
                                                    probe.com_pos)]
    /\ UNCHANGED <<lines, bufnr, coqtop, saved_sync, endpoints, send_queue, error_at,
                   pc, ghost, wait>>

NextScan ==
    \/ GetMessageRange
    \/ StripComments
    \/ AdjustOffset

ScanSpec == InitScan /\ [][NextScan]_vars

\* ------------------------------------------------------------------------
\* The stripper and the offset mapper applied to a whole text, as
\* send_until_fail applies them to a sentence: any text, also one that a
\* comment ends
\* ------------------------------------------------------------------------

\* the longest text of the exhaustive stripper runs
MaxStripLen == 5

StripAlphabet == {"a", "(", "*", ")", "\n"}

\* a text with two comments on two lines, and one with a nested comment
TwoComments ==
    << <<"(", "*", "a", "*", ")">>, <<"(", "*", "*", ")", "b", " ", "(", "*", "*", ")", "c", ".">> >>

NestedComment == << <<"a", "(", "*", "(", "*", "b", "*", ")", "*", ")", "c", ".">> >>

TrailingComment == << <<"a", ".", "(", "*", "b", "*", ")">> >>

StripDocs ==
    {TwoComments, NestedComment, TrailingComment, Comment6Foo, CommentFoo}
        \cup {split_newline(t) : t \in UNION {[1..n -> StripAlphabet] : n \in 0..MaxStripLen}}

InitStrip ==
    /\ lines \in StripDocs
    /\ bufnr = 1
    /\ coqtop = None
    /\ saved_sync = None
    /\ endpoints = <<>>
    /\ send_queue = <<>>
    /\ error_at = None
    /\ pc = "idle"
    /\ ghost = Idle("-", 0, 0)
    /\ probe = None
    /\ wait = NoWait

\* message = _between(start, stop) of the whole buffer;
\* no_comments, com_pos = _strip_comments(message)
StripText ==
    /\ probe = None
    /\ LET from == <<0, 0>>
           to == <<Len(lines) - 1, Len(lines[Len(lines)]) - 1>>
           message == between(lines, from, to)
           stripped == strip_comments(message)
       IN  probe' = [fn |-> "strip_comments", after |-> from,
                     to_send |-> [start |-> from, stop |-> to],
                     message |-> message, no_comments |-> stripped[1],
                     com_pos |-> stripped[2], err_loc |-> None, adjusted |-> None]
    /\ UNCHANGED <<lines, bufnr, coqtop, saved_sync, endpoints, send_queue, error_at,
                   pc, ghost, wait>>

\* "Highlight error location" for an error offset inside the stripped text
MapOffset ==
    /\ probe # None
    /\ probe.fn = "strip_comments"
    /\ \E off \in 0..Len(probe.no_comments) :
           /\ probe' = [probe EXCEPT !.fn = "adjust_offset", !.err_loc = <<off, off>>,
                            !.adjusted = adjust_offset(off, off, probe.com_pos)]
           /\ error_at' = error_span(probe.to_send, probe.message, probe.com_pos,
                                     <<off, off>>)
    /\ UNCHANGED <<lines, bufnr, coqtop, saved_sync, endpoints, send_queue, pc, ghost, wait>>

NextStrip ==
    \/ StripText
    \/ MapOffset

StripSpec == InitStrip /\ [][NextStrip]_vars

\* ------------------------------------------------------------------------
\* call_and_wait() and wait_coqtop() step by step: the prover works in its
\* own thread and sets b:coqtop_done when it is done, the user interrupts
\* when they like
\* ------------------------------------------------------------------------

\* the user interrupts one wait at most this many times
MaxInterrupts == 2

\* a prover function yields at most this many times before its result
MaxWaits == 3

\* wait_coqtop() is entered: stopped = False.  done is b:coqtop_done,
\* forwarded counts the calls of self.coqtop.interrupt(), interrupts (ghost)
\* the interrupts of the user during this wait
wait_begin(w) ==
    [w EXCEPT !.pc = "polling", !.stopped = FALSE, !.interrupts = 0, !.forwarded = 0]

\* mutant: an interrupt ends the wait
on_interrupt_gives_up(w) ==
    [w EXCEPT !.forwarded = @ + 1, !.stopped = TRUE, !.pc = "returned"]

\* except KeyboardInterrupt: forward it, remember it, wait again
on_interrupt(w) ==
    [w EXCEPT !.forwarded = @ + 1, !.stopped = TRUE]

\* mutant: the wait is left without a look at b:coqtop_done
polled_blind(w) == [w EXCEPT !.pc = "returned"]

\* vim.command("while !b:coqtop_done | endwhile") comes back; break; return
polled(w) ==
    IF w.done THEN [w EXCEPT !.pc = "returned"] ELSE w

\* call_and_wait(): b:coqtop_done = 0, ret = func_iter.send(stopped)
resume(w, again) ==
    [w EXCEPT !.done = FALSE, !.sent = Append(@, w.stopped),
              !.pc = IF again THEN "waiting" ELSE "idle"]

InitWait ==
    /\ lines \in Docs
    /\ bufnr = 1
    /\ coqtop = <<"Coqtop">>
    /\ saved_sync = None
    /\ endpoints = <<>>
    /\ send_queue = <<>>
    /\ error_at = None
    /\ pc = "idle"
    /\ ghost = Idle("-", 0, 0)
    /\ probe = None
    /\ wait = [pc |-> "waiting", done |-> FALSE, stopped |-> FALSE, interrupts |-> 0,
               forwarded |-> 0, sent |-> <<>>]

\* call_and_wait() has started (or resumed) the prover function and calls
\* wait_coqtop()
WaitBegin ==
    /\ wait.pc = "waiting"
    /\ wait' = wait_begin(wait)
    /\ UNCHANGED <<lines, bufnr, coqtop, saved_sync, endpoints, send_queue, error_at,
                   pc, ghost, probe>>

\* set_done(), the callback of the prover's thread
SetDone ==
    /\ wait.pc \in {"waiting", "polling"}
    /\ ~wait.done
    /\ wait' = [wait EXCEPT !.done = TRUE]
    /\ UNCHANGED <<lines, bufnr, coqtop, saved_sync, endpoints, send_queue, error_at,
                   pc, ghost, probe>>

\* the user interrupts the polling loop
Interrupt ==
    /\ wait.pc = "polling"
    /\ wait.interrupts < MaxInterrupts
    /\ wait' = [on_interrupt(wait) EXCEPT !.interrupts = @ + 1]
    /\ UNCHANGED <<lines, bufnr, coqtop, saved_sync, endpoints, send_queue, error_at,
                   pc, ghost, probe>>

\* the polling loop ends and wait_coqtop() returns stopped
WaitReturn ==
    /\ wait.pc = "polling"
    /\ polled(wait) # wait
    /\ wait' = polled(wait)
    /\ UNCHANGED <<lines, bufnr, coqtop, saved_sync, endpoints, send_queue, error_at,
                   pc, ghost, probe>>

\* call_and_wait() hands stopped to the prover function, which yields again
\* or gives its result
Resume ==
    /\ wait.pc = "returned"
    /\ \E again \in BOOLEAN :
           /\ again => Len(wait.sent) + 1 < MaxWaits
           /\ wait' = resume(wait, again)
    /\ UNCHANGED <<lines, bufnr, coqtop, saved_sync, endpoints, send_queue, error_at,
                   pc, ghost, probe>>

NextWait ==
    \/ WaitBegin
    \/ SetDone
    \/ Interrupt
    \/ WaitReturn
    \/ Resume

WaitSpec == InitWait /\ [][NextWait]_vars

\* ------------------------------------------------------------------------
\* The block skipper alone, applied at every position of short buffers
\* ------------------------------------------------------------------------

MaxSkipLen == 5

SkipAlphabet == {"(", "*", ")", "\"", "\n"}

\* a comment nested three deep over two lines, read from inside the first "(*"
DeepComment ==
    << <<"(", "*", "(", "*", "(", "*", "*", ")">>, <<"*", ")", "(", "*", "*", ")", "*", ")", "a">> >>

SkipDocs ==
    {DeepComment, NestedComment, TwoComments, StringClose}
        \cup {split_newline(t) : t \in UNION {[1..n -> SkipAlphabet] : n \in 0..MaxSkipLen}}

InitSkip ==
    /\ lines \in SkipDocs
    /\ bufnr = 1
    /\ coqtop = None
    /\ saved_sync = None
    /\ endpoints = <<>>
    /\ send_queue = <<>>
    /\ error_at = None
    /\ pc = "idle"
    /\ ghost = Idle("-", 0, 0)
    /\ probe = None
    /\ wait = NoWait

\* _skip_comment(lines, sline, scol)
SkipComment ==
    /\ \E after \in Positions(lines) :
           probe' = [fn |-> "skip_comment", after |-> after,
                     found |-> skip_comment(lines, after[1], after[2])]
    /\ UNCHANGED <<lines, bufnr, coqtop, saved_sync, endpoints, send_queue, error_at,
                   pc, ghost, wait>>

\* _skip_str(lines, sline, scol)
SkipStr ==
    /\ \E after \in Positions(lines) :
           probe' = [fn |-> "skip_str", after |-> after,
                     found |-> skip_str(lines, after[1], after[2])]
    /\ UNCHANGED <<lines, bufnr, coqtop, saved_sync, endpoints, send_queue, error_at,
                   pc, ghost, wait>>

NextSkip ==
    \/ SkipComment
    \/ SkipStr

SkipSpec == InitSkip /\ [][NextSkip]_vars

\* ------------------------------------------------------------------------
\* The scanner's loops run turn by turn from every position of short buffers
\* ------------------------------------------------------------------------

MaxLoopLen == 3

LoopAlphabet == {"a", ".", " ", "(", "*", ")", "\"", "\n"}

LoopDocs ==
    {Intros, CommentFoo, BulletFoo, Ellipsis, StringClose, DeepComment, NestedComment,
     BulletAfterComment}
        \cup {split_newline(t) : t \in UNION {[1..n -> LoopAlphabet] : n \in 0..MaxLoopLen}}

LoopFns == {"find_next_sentence", "find_dot_after", "skip_comment", "skip_str"}

InitLoop ==
    /\ lines \in LoopDocs
    /\ bufnr = 1
    /\ coqtop = None
    /\ saved_sync = None
    /\ endpoints = <<>>
    /\ send_queue = <<>>
    /\ error_at = None
    /\ pc = "idle"
    /\ ghost = Idle("-", 0, 0)
    /\ probe = None
    /\ wait = NoWait

\* a function of the scanner is called at a position of the buffer
LoopBegin ==
    /\ probe = None
    /\ \E fn \in LoopFns, after \in Positions(lines) :
           probe' = [fn |-> fn, after |-> after, turns |-> 0,
                     loop |-> GoOn(after[1], after[2], 1)]
    /\ UNCHANGED <<lines, bufnr, coqtop, saved_sync, endpoints, send_queue, error_at,
                   pc, ghost, wait>>

\* what the next turn of the loop of the function called makes of the loop
LoopNext ==
    LET l == probe.loop
    IN  IF probe.fn = "find_next_sentence"
        THEN find_next_sentence_turn(lines, l.sline, l.scol)
        ELSE IF probe.fn = "find_dot_after"
        THEN find_dot_after_turn(lines, l.sline, l.scol)
        ELSE IF probe.fn = "skip_comment"
        THEN skip_block_turn(lines, l.sline, l.scol, l.nesting,
                             COMMENT_CLOSE, COMMENT_OPEN)
        ELSE skip_block_turn(lines, l.sline, l.scol, l.nesting, QUOTE, None)

\* the loop of the function called makes one turn; turns counts them
LoopTurn ==
    /\ probe # None
    /\ probe.loop.at = "running"
    /\ probe' = [probe EXCEPT !.loop = LoopNext, !.turns = @ + 1]
    /\ UNCHANGED <<lines, bufnr, coqtop, saved_sync, endpoints, send_queue, error_at,
                   pc, ghost, wait>>

NextLoop ==
    \/ LoopBegin
    \/ LoopTurn

LoopSpec == InitLoop /\ [][NextLoop]_vars

\* ------------------------------------------------------------------------
\* Properties
\* ------------------------------------------------------------------------

StrictlyIncreasing(stack) ==
    \A i \in 1..(Len(stack) - 1) : PosLT(stack[i], stack[i + 1])

\* C1: in every reachable state the endpoint stack is strictly increasing
\* in (line, column) order.
C1_EndpointsStrictlyIncreasing == StrictlyIncreasing(endpoints)

\* C2, as claimed: the length of the endpoint stack is the number of
\* sentences accepted minus the number of steps the prover reported rewound
\* (requested plus extra).
C2_LengthIsAcceptedMinusReported == Len(endpoints) = ghost.balance

\* C2, amended: the length of the endpoint stack is the number of sentences
\* accepted minus, for each successful rewind, the steps reported (requested
\* plus extra) as far as the stack then held endpoints, counted since the
\* last reset.
C2_LengthIsAcceptedMinusRemoved == Len(endpoints) = ghost.kept

\* a successful rewind of more steps than the stack held
C2_Witness ==
    /\ pc = "done"
    /\ ghost.op = "rewind"
    /\ ghost.arg[2].kind = "ok"
    /\ ghost.arg[2].goals = "ok"
    /\ ghost.pre # <<>>
    /\ ghost.arg[1] + ghost.arg[2].extra > Len(ghost.pre)
    /\ ghost.kept = 0

\* the endpoints of stack before pos, in order
Below(stack, pos) == SelectSeq(stack, LAMBDA e : PosLT(e, pos))

\* how many endpoints of stack are at or after pos
AtOrAfter(stack, pos) == Cardinality({i \in 1..Len(stack) : PosLE(pos, stack[i])})

\* no endpoint of stack is before an earlier one
InOrder(stack) ==
    \A i, j \in 1..Len(stack) : i < j => PosLE(stack[i], stack[j])

\* C3, as claimed: rewind_to(pos) leaves exactly the endpoints before pos,
\* in order, whatever the stack was.
C3_RemovesExactlyFromPos ==
    ghost.rt # None => ghost.rt.post = Below(ghost.rt.pre, ghost.rt.pos)

\* C3, amended: with k the number of endpoints >= pos, rewind_to(pos) makes
\* no prover call when k = 0 and leaves the stack alone; when the prover
\* reports success with e extra steps it removes the last k + e endpoints
\* (all if fewer remain) and keeps the others in order, which with e = 0 on
\* a stack in Position order (equal endpoints allowed) are exactly the
\* endpoints < pos; when the
\* prover reports failure the stack is left alone; when the prover call
\* raises CoqtopError, or the goals query that follows its answer does, the
\* session is stopped and the stack is emptied.
C3_RemovesCountedTail ==
    ghost.rt # None =>
        LET rt == ghost.rt
            k == AtOrAfter(rt.pre, rt.pos)
        IN  /\ rt.resp.kind = "none" => k = 0 /\ rt.post = rt.pre
            /\ rt.resp.kind = "ok" /\ rt.resp.goals = "ok" =>
                   /\ k >= 1
                   /\ rt.post = SubSeq(rt.pre, 1, Max(0, Len(rt.pre) - (k + rt.resp.extra)))
                   /\ (rt.resp.extra = 0 /\ InOrder(rt.pre)
                           => rt.post = Below(rt.pre, rt.pos))
            /\ rt.resp.kind = "no" /\ rt.resp.goals = "ok" => rt.post = rt.pre
            /\ rt.resp.kind = "error" \/ rt.resp.goals = "error" => rt.post = <<>>

\* a successful rewind_to that removed some endpoints and kept others
C3_Witness ==
    /\ ghost.rt # None
    /\ ghost.rt.resp.kind = "ok"
    /\ ghost.rt.resp.goals = "ok"
    /\ ghost.rt.post # <<>>
    /\ Len(ghost.rt.post) < Len(ghost.rt.pre)
    /\ endpoints = ghost.rt.post

\* C4: a call of sync() right after a call of sync(), the buffer not changed
\* in between, leaves the endpoint stack as it was.
C4_SyncTwiceNoOp ==
    (pc = "done" /\ ghost.op = "sync" /\ ghost.prev = "sync") => endpoints = ghost.pre

\* the second of two calls of sync() has returned, the stack holding endpoints
\* at or after the position the first call rewound to
C4_Witness ==
    /\ pc = "done"
    /\ ghost.op = "sync"
    /\ ghost.prev = "sync"
    /\ ghost.outcome = "returned"
    /\ Len(endpoints) >= 2
    /\ lines = DocBlank

\* the endpoint send_until_fail pushes for a sentence
EndpointOf(to_send) == <<to_send.stop[1], to_send.stop[2] + 1>>

\* C5: once the prover has reported failure for a sentence in a run of
\* send_until_fail, that sentence is the last one dispatched in the run, no
\* endpoint is pushed for it, the queue is empty, and the stack is the stack
\* at the start of the run followed by the endpoints of the sentences
\* accepted before it, as long as the session runs (a CoqtopError of the
\* goals query that ends the run stops the session).
C5_FailureDropsQueue ==
    (ghost.run # NoRun /\ \E i \in 1..Len(ghost.run.results) : ghost.run.results[i] = "fail")
        => LET run == ghost.run
               n == Len(run.results)
           IN  /\ run.results[n] = "fail"
               /\ \A i \in 1..(n - 1) : run.results[i] = "ok"
               /\ n <= Len(run.queue)
               /\ send_queue = <<>>
               /\ run.goals # "error"
                      => endpoints = run.pre \o [i \in 1..(n - 1) |-> EndpointOf(run.queue[i])]

\* the second of three queued sentences failed and the call has returned
C5_Witness ==
    /\ pc = "done"
    /\ ghost.run # NoRun
    /\ ghost.run.results = <<"ok", "fail">>
    /\ ghost.run.goals = "ok"
    /\ Len(ghost.run.queue) = 3
    /\ Len(endpoints) = Len(ghost.run.pre) + 1

\* C6: whenever step or to_cursor (and with them send_until_fail) returns to
\* its caller, the pending queue is empty.
C6_QueueEmptyOnReturn ==
    (pc = "done" /\ ghost.op \in {"step", "to_cursor"} /\ ghost.outcome = "returned")
        => send_queue = <<>>

\* the scanner was applied to buf from after
Scanned(buf, after) ==
    /\ probe # None
    /\ probe.fn = "get_message_range"
    /\ lines = buf
    /\ probe.after = after

\* C7, as claimed: the span starts at the first character of the sentence,
\* after the leading whitespace and comments: (0,8)-(0,11) for
\* "(* c *) foo." from (0,0), (0,8)-(0,19) for "intros. reflexivity." from
\* (0,7).
C7_SpanStartsAtSentence ==
    /\ Scanned(CommentFoo, <<0, 0>>)
           => probe.to_send = [start |-> <<0, 8>>, stop |-> <<0, 11>>]
    /\ Scanned(Intros, <<0, 7>>)
           => probe.to_send = [start |-> <<0, 8>>, stop |-> <<0, 19>>]

\* C7, amended: the span starts at the scan position, the leading
\* whitespace and comments included: (0,0)-(0,11) for "(* c *) foo." from
\* (0,0), (0,7)-(0,19) for "intros. reflexivity." from (0,7).
C7_SpanStartsAtScanPosition ==
    /\ Scanned(CommentFoo, <<0, 0>>)
           => probe.to_send = [start |-> <<0, 0>>, stop |-> <<0, 11>>]
    /\ Scanned(Intros, <<0, 7>>)
           => probe.to_send = [start |-> <<0, 7>>, stop |-> <<0, 19>>]

C7_Witness == Scanned(CommentFoo, <<0, 0>>) /\ probe.to_send # None

\* the character of buf at pos, or None past the end of its line
CharAt(buf, pos) ==
    IF pos[1] < Len(buf) /\ pos[2] < Len(buf[pos[1] + 1])
    THEN buf[pos[1] + 1][pos[2] + 1] ELSE None

\* pos holds a '.' that ends a sentence: the line or a blank follows it, or
\* two dots precede it
TerminatingDot(buf, pos) ==
    /\ CharAt(buf, pos) = "."
    /\ \/ CharAt(buf, <<pos[1], pos[2] + 1>>) \in {None, " "}
       \/ /\ pos[2] >= 2
          /\ CharAt(buf, <<pos[1], pos[2] - 1>>) = "."
          /\ CharAt(buf, <<pos[1], pos[2] - 2>>) = "."

\* pos holds the last character of a bullet token
BulletEnd(buf, pos) ==
    /\ CharAt(buf, pos) \in {"{", "}", "-", "+", "*"}
    /\ CharAt(buf, pos) \in {"-", "+", "*"}
           => CharAt(buf, <<pos[1], pos[2] + 1>>) # CharAt(buf, pos)

\* C8: whenever the scanner returns a span for a scan started at after, the
\* span starts at after and stops, at or after it, on the terminator: the
\* terminating dot or the last character of a bullet token.
C8_SpanFromScanPositionToTerminator ==
    (probe # None /\ probe.fn = "get_message_range" /\ probe.to_send # None)
        => /\ probe.to_send.start = probe.after
           /\ PosLE(probe.after, probe.to_send.stop)
           /\ \/ TerminatingDot(lines, probe.to_send.stop)
              \/ BulletEnd(lines, probe.to_send.stop)

\* a sentence ending in "..." found, the span stops on the third dot
C8_Witness ==
    /\ Scanned(Ellipsis, <<0, 0>>)
    /\ probe.to_send # None
    /\ probe.to_send.stop = <<0, 3>>

\* C9, as claimed: "- - foo." scanned from the start of the line gives a
\* bullet span covering "- -".
C9_BulletsMergeOverBlank ==
    Scanned(BulletFoo, <<0, 0>>)
        => probe.to_send = [start |-> <<0, 0>>, stop |-> <<0, 2>>]

\* C9, amended: "- - foo." scanned from the start of the line gives a bullet
\* span covering the first "-" alone, the blank ends the token; only
\* adjacent repeats merge, "-- foo." gives a span covering "--"; neither
\* includes "foo.".
C9_BulletsMergeWhenAdjacent ==
    /\ Scanned(BulletFoo, <<0, 0>>)
           => probe.to_send = [start |-> <<0, 0>>, stop |-> <<0, 0>>]
    /\ Scanned(BulletRun, <<0, 0>>)
           => probe.to_send = [start |-> <<0, 0>>, stop |-> <<0, 1>>]

C9_Witness == Scanned(BulletFoo, <<0, 0>>) /\ probe.to_send # None

\* the offset mapper was applied to error offset off of a sentence with one
\* stripped comment of length 6 at offset 0
AdjustedPastComment6(off) ==
    /\ probe # None
    /\ probe.fn = "adjust_offset"
    /\ probe.com_pos = <<(<<0, 6>>)>>
    /\ probe.err_loc = <<off, off>>

\* C10, as claimed: with one stripped comment of length 6 at offset 0, error
\* offset 2 of the stripped text maps to offset 8 of the original.
C10_Offset2MapsTo8 == AdjustedPastComment6(2) => probe.adjusted = <<8, 8>>

\* C10, amended: with one stripped comment of length 6 at offset 0, error
\* offset 2 of the stripped text maps to offset 7 of the original (2 plus
\* the 6 characters of the comment minus the 1 space that replaced it),
\* where the original holds the character the stripped text holds at 2.
C10_Offset2MapsTo7 ==
    AdjustedPastComment6(2)
        => /\ probe.adjusted = <<7, 7>>
           /\ probe.message[7 + 1] = probe.no_comments[2 + 1]

C10_Witness == AdjustedPastComment6(2) /\ lines = Comment6Foo

\* the comments of msg read from the left: out[i] tells whether character i
\* is outside every comment, opens holds the offsets where a top-level
\* comment opens, ok tells that no "*)" came without its "(*"; depth is the
\* nesting at the end
RECURSIVE Lex(_, _, _, _)
Lex(msg, i, depth, acc) ==
    IF i > Len(msg) THEN [acc EXCEPT !.depth = depth]
    ELSE IF i < Len(msg) /\ msg[i] = "(" /\ msg[i + 1] = "*"
    THEN Lex(msg, i + 2, depth + 1,
             [acc EXCEPT !.out = @ \o <<FALSE, FALSE>>,
                         !.opens = IF depth = 0 THEN @ \cup {i - 1} ELSE @])
    ELSE IF i < Len(msg) /\ msg[i] = "*" /\ msg[i + 1] = ")"
    THEN IF depth = 0
         THEN Lex(msg, i + 2, 0, [acc EXCEPT !.out = @ \o <<TRUE, TRUE>>, !.ok = FALSE])
         ELSE Lex(msg, i + 2, depth - 1, [acc EXCEPT !.out = @ \o <<FALSE, FALSE>>])
    ELSE Lex(msg, i + 1, depth, [acc EXCEPT !.out = Append(@, depth = 0)])

Comments(msg) == Lex(msg, 1, 0, [out |-> <<>>, opens |-> {}, ok |-> TRUE, depth |-> 0])

\* the comments of msg are properly nested
ProperlyNested(msg) == Comments(msg).ok /\ Comments(msg).depth = 0

RECURSIVE SumLessOne(_, _)
SumLessOne(com_pos, i) ==
    IF i > Len(com_pos) THEN 0 ELSE (com_pos[i][2] - 1) + SumLessOne(com_pos, i + 1)

\* the stripper was applied to the whole text of the buffer
Stripped ==
    /\ probe # None
    /\ probe.fn \in {"strip_comments", "adjust_offset"}
    /\ probe.to_send.start = <<0, 0>>
    /\ Len(probe.message) = Len(join_newline(lines))

\* C11: for every text whose comments are properly nested, the length of the
\* stripped text plus (length - 1) for each recorded comment is the length
\* of the text, also when a comment begins or ends the text and when comments
\* are adjacent.
C11_StrippedLengthAddsUp ==
    (Stripped /\ ProperlyNested(probe.message))
        => Len(probe.no_comments) + SumLessOne(probe.com_pos, 1) = Len(probe.message)

\* the offset in the stripped text of the character at offset o of msg, a
\* character outside every comment: the characters outside comments before
\* it, and one space for each comment before it
StrippedOffset(msg, o) ==
    Cardinality({i \in 0..(o - 1) : Comments(msg).out[i + 1]})
        + Cardinality({c \in Comments(msg).opens : c < o})

\* the (line, col) of offset o of the text of buf, counted from line l
RECURSIVE PosOf(_, _, _)
PosOf(buf, l, o) ==
    IF o <= Len(buf[l + 1]) THEN <<l, o>>
    ELSE PosOf(buf, l + 1, o - Len(buf[l + 1]) - 1)

\* the offset mapper was applied to the stripped offset of the character at
\* offset o of the text, a character outside every comment
MappedFrom(o) ==
    /\ Stripped
    /\ probe.fn = "adjust_offset"
    /\ ProperlyNested(probe.message)
    /\ Comments(probe.message).out[o + 1]
    /\ probe.err_loc = <<StrippedOffset(probe.message, o), StrippedOffset(probe.message, o)>>

\* C12: for every text with properly nested comments and every character of
\* it outside all comments, _adjust_offset maps the character's offset in the
\* stripped text to its offset in the text, where the stripped text holds the
\* same character, and _pos_from_offset then gives the character's position
\* in the buffer, whatever the number of comments before it.
C12_OffsetRoundTrip ==
    \A o \in 0..(IF probe = None THEN -1 ELSE Len(probe.message) - 1) :
        MappedFrom(o)
            => /\ probe.adjusted = <<o, o>>
               /\ probe.no_comments[probe.err_loc[1] + 1] = probe.message[o + 1]
               /\ error_at = <<PosOf(lines, 0, o), PosOf(lines, 0, o)>>

\* the offset of "c", after two comments on the second line and one on the
\* first, was mapped
C12_Witness ==
    /\ lines = TwoComments
    /\ MappedFrom(16)
    /\ probe.message[16 + 1] = "c"
    /\ Len(probe.com_pos) = 3
    /\ error_at = <<(<<1, 10>>), (<<1, 10>>)>>

\* the text of buf from position after on, its lines joined by "\n"
TextFrom(buf, after) ==
    join_newline([l \in 1..(Len(buf) - after[1]) |->
                     IF l = 1 THEN Drop(buf[after[1] + 1], after[2])
                     ELSE buf[after[1] + l]])

\* What the first sentence of text t is, read from character i on as the
\* specification of the scanner has it: mode is "code", "comment" (nested
\* depth deep) or "string"; fresh tells that only blanks and comments were
\* read so far.  The result is [kind, at]: kind "found" with the offset of
\* the terminator, "none" when the text ends before one, "open_comment" or
\* "open_string" when the text ends inside one, "close" at a "*)" outside
\* every comment.
RECURSIVE Ref(_, _, _, _, _)
Ref(t, i, mode, depth, fresh) ==
    LET two == IF i < Len(t) THEN <<t[i], t[i + 1]>> ELSE <<>>
    IN  IF i > Len(t)
        THEN [kind |-> IF mode = "comment" THEN "open_comment"
                       ELSE IF mode = "string" THEN "open_string" ELSE "none",
              at |-> -1]
        ELSE IF mode = "comment"
        THEN IF two = COMMENT_OPEN THEN Ref(t, i + 2, "comment", depth + 1, fresh)
             ELSE IF two = COMMENT_CLOSE
             THEN Ref(t, i + 2, IF depth = 1 THEN "code" ELSE "comment", depth - 1, fresh)
             ELSE Ref(t, i + 1, "comment", depth, fresh)
        ELSE IF mode = "string"
        THEN Ref(t, i + 1, IF t[i] = "\"" THEN "code" ELSE "string", 0, FALSE)
        ELSE IF two = COMMENT_OPEN THEN Ref(t, i + 2, "comment", 1, fresh)
        ELSE IF two = COMMENT_CLOSE THEN [kind |-> "close", at |-> i - 1]
        ELSE IF fresh /\ t[i] \in {" ", "\n"} THEN Ref(t, i + 1, "code", 0, TRUE)
        ELSE IF fresh /\ t[i] \in {"{", "}"} THEN [kind |-> "found", at |-> i - 1]
        ELSE IF fresh /\ t[i] \in {"-", "+", "*"}
        THEN [kind |-> "found",
              at |-> CHOOSE e \in (i - 1)..(Len(t) - 1) :
                         /\ \A k \in i..(e + 1) : t[k] = t[i]
                         /\ (e + 2 <= Len(t) => t[e + 2] # t[i])]
        ELSE IF t[i] = "\"" THEN Ref(t, i + 1, "string", 0, FALSE)
        ELSE IF t[i] = "." /\ (i = Len(t) \/ t[i + 1] \in {" ", "\n"})
        THEN [kind |-> "found", at |-> i - 1]
        ELSE IF i + 2 <= Len(t) /\ <<t[i], t[i + 1], t[i + 2]>> = <<".", ".", ".">>
        THEN [kind |-> "found", at |-> i + 1]
        ELSE IF two = <<".", ".">> THEN Ref(t, i + 2, "code", 0, FALSE)
        ELSE Ref(t, i + 1, "code", 0, FALSE)

\* the first sentence of the text of buf from after on
Sentence(buf, after) == Ref(TextFrom(buf, after), 1, "code", 0, TRUE)

HasOpaque(t, at) ==
    \E i \in 1..at : t[i] = "\"" \/ (t[i] = "(" /\ t[i + 1] = "*")

\* C20: strings and comments are opaque to the scanner: when a well-formed
\* string or comment begins before the terminator of the first sentence,
\* whatever it holds ('.', "(*", "*)" or '"'), the scanner returns a span
\* that stops on that terminator, and does not fail.
C20_StringsAndCommentsOpaque ==
    (probe # None /\ probe.fn = "get_message_range"
        /\ Sentence(lines, probe.after).kind = "found"
        /\ HasOpaque(TextFrom(lines, probe.after), Sentence(lines, probe.after).at))
        => /\ probe.to_send # None
           /\ probe.to_send.stop =
                  PosOf(lines, probe.after[1],
                        probe.after[2] + Sentence(lines, probe.after).at)

\* text t is plain: no string, no comment delimiter, and it does not start
\* with a bullet after its blanks
Plain(t) ==
    /\ \A i \in 1..Len(t) : t[i] # "\""
    /\ Find(t, COMMENT_OPEN) = -1
    /\ Find(t, COMMENT_CLOSE) = -1
    /\ lstrip(t) # <<>> => lstrip(t)[1] \notin {"{", "}", "-", "+", "*", "\n"}

\* C19: in the dot search, a '.' that a whitespace character (space, tab,
\* newline) or the end of the text follows ends the sentence there: in a
\* plain text whose first '.' is such a one, the span stops on it.
C19_DotBeforeWhitespaceTerminates ==
    (probe # None /\ probe.fn = "get_message_range")
        => LET t == TextFrom(lines, probe.after)
               d == Find(t, DOT)
           IN  (Plain(t) /\ d # -1 /\ (d + 1 = Len(t) \/ t[d + 2] \in Whitespace))
                   => /\ probe.to_send # None
                      /\ probe.to_send.stop = PosOf(lines, probe.after[1], probe.after[2] + d)

\* C14: wait_coqtop() returns only once b:coqtop_done is set, never because
\* of an interrupt alone; every interrupt of the user during the wait was
\* forwarded by coqtop.interrupt(); and the stopped it returns is true exactly
\* when at least one interrupt arrived during the wait.
C14_WaitReturnsOnlyWhenDone ==
    /\ wait # NoWait /\ wait.pc = "returned"
           => /\ wait.done
              /\ wait.forwarded = wait.interrupts
              /\ wait.stopped <=> wait.interrupts >= 1
    /\ wait # NoWait /\ wait.pc = "polling" => wait.forwarded = wait.interrupts

\* a wait that the user interrupted twice before the prover was done has
\* returned
C14_Witness ==
    /\ wait # NoWait
    /\ wait.pc = "returned"
    /\ wait.interrupts = 2
    /\ wait.stopped
    /\ wait.done
    /\ Len(wait.sent) = 1

\* this step is a call of sync() that finds no saved BufferRevision, or one
\* of another buffer
SyncOfNewDocument ==
    /\ pc = "idle"
    /\ pc' = "done"
    /\ ghost'.op = "sync"
    /\ (saved_sync = None \/ saved_sync[1] # bufnr)

\* this step is a call of stop()
StopCall ==
    /\ pc = "idle"
    /\ pc' = "done"
    /\ ghost'.op = "stop"

\* C15: a call of sync() that finds no saved BufferRevision, or one of
\* another buffer, leaves the endpoint stack, the pending queue and the error
\* region empty and asks the prover for no rewind (rewind_to is not called);
\* a call of stop() leaves them empty too.
C15_ResetOnNewDocumentAndStop ==
    [][/\ SyncOfNewDocument
           => /\ endpoints' = <<>>
              /\ send_queue' = <<>>
              /\ error_at' = None
              /\ ghost'.rt = None
              /\ coqtop' = coqtop
       /\ StopCall
           => /\ endpoints' = <<>>
              /\ send_queue' = <<>>
              /\ error_at' = None]_vars

\* sync() in another buffer has emptied a stack that held endpoints
C15_Witness ==
    /\ pc = "done"
    /\ ghost.op = "sync"
    /\ ghost.pre # <<>>
    /\ ghost.rt = None
    /\ endpoints = <<>>
    /\ saved_sync # None
    /\ saved_sync[1] = 2

\* the last dispatch of the running send loop failed: the sentence that was
\* dispatched, its text and the offsets the prover reported
Failed ==
    /\ pc = "sending"
    /\ ghost.run # NoRun
    /\ ghost.run.err_loc # None

FailedSentence == ghost.run.queue[Len(ghost.run.results)]

FailedText == between(lines, FailedSentence.start, FailedSentence.stop)

\* the position in the buffer of offset o of msg, a text that begins at from
Anchored(from, msg, o) ==
    LET breaks == {i \in 1..o : msg[i] = "\n"}
        last == CHOOSE i \in breaks : \A j \in breaks : j <= i
    IN  IF breaks = {} THEN <<from[1], from[2] + o>>
        ELSE <<from[1] + Cardinality(breaks), o - last>>

\* the offsets of msg that offset s of its stripped text stands for: those of
\* a character outside every comment, or of the end of msg
Originals(msg, s) ==
    {o \in 0..Len(msg) :
        /\ o = Len(msg) \/ Comments(msg).out[o + 1]
        /\ StrippedOffset(msg, o) = s}

\* C16: after a failed dispatch the error region is the span of the sentence
\* dispatched when the prover reports the offsets (-1, -1); otherwise each of
\* its two ends is the position, counted from the start of the sentence, of
\* the character of the sentence that the reported offset stands for once
\* the stripped comments are accounted for.
C16_ErrorRegionOfFailedDispatch ==
    Failed
        => LET to_send == FailedSentence
               loc == ghost.run.err_loc
           IN  /\ error_at # None
               /\ loc = <<-1, -1>> => error_at = <<to_send.start, to_send.stop>>
               /\ (loc # <<-1, -1>> /\ ProperlyNested(FailedText))
                      => \A k \in 1..2 : \A o \in Originals(FailedText, loc[k]) :
                             error_at[k] = Anchored(to_send.start, FailedText, o)

\* the prover reported offset 2 of "\n b.", the text "\n(* c*)b." stripped:
\* the error region is at the "b" on the second line
C16_Witness ==
    /\ Failed
    /\ lines = DocCom
    /\ FailedText = <<"\n", "(", "*", " ", "c", "*", ")", "b", ".">>
    /\ ghost.run.err_loc = <<2, 2>>
    /\ Originals(FailedText, 2) = {7}
    /\ error_at = <<(<<1, 6>>), (<<1, 6>>)>>

\* the prover reported no offsets: the error region is the whole sentence
C16_WitnessWholeSentence ==
    /\ Failed
    /\ ghost.run.err_loc = <<-1, -1>>
    /\ error_at = <<FailedSentence.start, FailedSentence.stop>>
    /\ FailedSentence.start # FailedSentence.stop

\* to_cursor() was called with the cursor before the last endpoint
ToCursorRewound ==
    /\ pc \in {"sending", "done"}
    /\ ghost.op = "to_cursor"
    /\ ghost.arg.rewinds

\* the position of the cursor, lines counted from 0
CursorPos == <<ghost.arg.cursor[1] - 1, ghost.arg.cursor[2]>>

\* C17 as stated: when the cursor precedes the last endpoint and the prover
\* reports a successful rewind with no extra steps, the stack holds exactly
\* the prior endpoints that are < the cursor position, and no sentence is
\* dispatched.
C17_RewindsToCursor ==
    ToCursorRewound
        => /\ pc = "done"
           /\ ghost.run = NoRun
           /\ (ghost.rt.resp.kind = "ok" /\ ghost.rt.resp.extra = 0
                  /\ ghost.rt.resp.goals = "ok")
                  => endpoints = Below(ghost.rt.pre, CursorPos)

\* C17 amended: when the cursor precedes the last endpoint, to_cursor calls
\* rewind_to two columns after the cursor and dispatches no sentence; when
\* the prover reports a successful rewind with no extra steps, the endpoints
\* at or after that position are removed from the end of the stack, and with
\* the stack in order the stack then holds exactly the prior endpoints that
\* are < that position (the endpoints of the sentences that stop at or
\* before the cursor); when no endpoint is at or after that position the
\* prover is not called and the stack is unchanged.
C17_RewindsPastCursor ==
    ToCursorRewound
        => LET rt == ghost.rt
               k == AtOrAfter(rt.pre, rt.pos)
           IN  /\ pc = "done"
               /\ ghost.run = NoRun
               /\ rt.pos = <<CursorPos[1], CursorPos[2] + 2>>
               /\ PosLT(CursorPos, rt.pre[Len(rt.pre)])
               /\ k = 0 => (rt.resp = NoCall /\ endpoints = rt.pre)
               /\ (rt.resp.kind = "ok" /\ rt.resp.extra = 0 /\ rt.resp.goals = "ok")
                      => /\ endpoints = SubSeq(rt.pre, 1, Len(rt.pre) - k)
                         /\ InOrder(rt.pre) => endpoints = Below(rt.pre, rt.pos)

\* with the cursor on the "." of "a." and "a." and "b." accepted, the
\* endpoint of "a.", which is after the cursor, is kept
C17_Witness ==
    /\ ToCursorRewound
    /\ lines = DocAB
    /\ ghost.arg.cursor = <<1, 1>>
    /\ ghost.rt.pre = <<(<<0, 2>>), (<<0, 5>>)>>
    /\ ghost.rt.resp.kind = "ok"
    /\ ghost.rt.resp.extra = 0
    /\ ghost.rt.resp.goals = "ok"
    /\ endpoints = <<(<<0, 2>>)>>

\* to_cursor() was called with the cursor at or after the last endpoint and
\* has entered the send loop
ToCursorAdvanced ==
    /\ pc \in {"sending", "done"}
    /\ ghost.op = "to_cursor"
    /\ ~ghost.arg.rewinds
    /\ ghost.run # NoRun

\* q is, in document order, the sentences that follow position after one
\* after the other and stop at or before limit, up to the first that stops
\* beyond limit or that the scanner does not find
ConsecutiveUpTo(q, after, limit) ==
    LET from(i) == IF i = 1 THEN after ELSE <<q[i - 1].stop[1], q[i - 1].stop[2] + 1>>
        beyond == get_message_range(lines, from(Len(q) + 1))
    IN  /\ \A i \in 1..Len(q) :
               /\ q[i] = get_message_range(lines, from(i))
               /\ q[i] # None
               /\ PosLE(q[i].stop, limit)
        /\ beyond = None \/ ~PosLE(beyond.stop, limit)

\* C18: when the cursor is at or after the last endpoint, the queue that
\* to_cursor hands to the send loop is, in document order, exactly the
\* consecutive sentences after the last endpoint that stop at or before the
\* cursor, so that no sentence dispatched by to_cursor stops after the
\* cursor.
C18_QueuesSentencesUpToCursor ==
    ToCursorAdvanced
        => LET run == ghost.run
               last == IF run.pre = <<>> THEN <<0, 0>> ELSE run.pre[Len(run.pre)]
           IN  /\ ConsecutiveUpTo(run.queue, last, CursorPos)
               /\ \A i \in 1..Len(run.results) : PosLE(run.queue[i].stop, CursorPos)

\* Where the block that text t is inside of from character i on ends, read
\* character by character: with nests, a "(*" opens one block more and a "*)"
\* closes one; without, the first '"' closes the block.  The result is the
\* offset just after the delimiter that closes the last open block, -1 when
\* t ends before it.
RECURSIVE BlockEnd(_, _, _, _)
BlockEnd(t, i, depth, nests) ==
    LET two == IF i < Len(t) THEN <<t[i], t[i + 1]>> ELSE <<>>
    IN  IF i > Len(t) THEN -1
        ELSE IF nests /\ two = COMMENT_OPEN THEN BlockEnd(t, i + 2, depth + 1, nests)
        ELSE IF nests /\ two = COMMENT_CLOSE
        THEN IF depth = 1 THEN i + 1 ELSE BlockEnd(t, i + 2, depth - 1, nests)
        ELSE IF ~nests /\ t[i] = "\"" THEN i
        ELSE BlockEnd(t, i + 1, depth, nests)

\* the block skipper was applied
Skipped == probe # None /\ probe.fn \in {"skip_comment", "skip_str"}

\* C21: started with nesting 1, the block skipper returns the position just
\* after the end delimiter that brings the nesting to 0, each start delimiter
\* met first counting +1 and each end delimiter met first -1, over line
\* boundaries and at any depth, and None exactly when the text ends with the
\* nesting above 0; without a start delimiter it returns the position just
\* after the first end delimiter.
C21_SkipsToMatchingEnd ==
    Skipped
        => LET off == BlockEnd(TextFrom(lines, probe.after), 1, 1,
                               probe.fn = "skip_comment")
           IN  IF off = -1 THEN probe.found = None
               ELSE probe.found = PosOf(lines, probe.after[1], probe.after[2] + off)

\* from inside the first "(*" of a comment nested three deep, the skipper
\* ends after the "*)" on the second line that closes it
C21_Witness ==
    /\ Skipped
    /\ probe.fn = "skip_comment"
    /\ lines = DeepComment
    /\ probe.after = <<0, 2>>
    /\ probe.found = <<1, 8>>

\* step() was called
StepCalled ==
    /\ pc \in {"sending", "done"}
    /\ ghost.op = "step"

\* the last endpoint of stack, (0, 0) when it is empty
LastOf(stack) == IF stack = <<>> THEN <<0, 0>> ELSE stack[Len(stack)]

\* C22: step() dispatches exactly the one sentence scanned after the last
\* endpoint; when the prover accepts it the stack grows by the one endpoint
\* (stop.line, stop.col + 1) of that sentence, when the scan or the dispatch
\* fails the stack does not grow; a step() never pushes more than one
\* endpoint.
C22_StepPushesOneEndpoint ==
    StepCalled
        => LET run == ghost.run
           IN  IF run = NoRun THEN Len(endpoints) <= Len(ghost.pre)
               ELSE LET to_send == get_message_range(lines, LastOf(run.pre))
                    IN  /\ to_send # None
                        /\ run.queue = <<to_send>>
                        /\ Len(run.results) <= 1
                        /\ Len(endpoints) <= Len(run.pre) + 1
                        /\ (run.results = <<"ok">> /\ run.goals # "error")
                               => endpoints = Append(run.pre, EndpointOf(to_send))
                        /\ run.results = <<"fail">> => Len(endpoints) <= Len(run.pre)

\* the scanner was applied to a plain text whose first '.' is at offset d
FirstDotAt(d) ==
    /\ probe # None
    /\ probe.fn = "get_message_range"
    /\ Plain(TextFrom(lines, probe.after))
    /\ d = Find(TextFrom(lines, probe.after), DOT)
    /\ d # -1

\* the position in the buffer of offset o of the text scanned
ScanPos(o) == PosOf(lines, probe.after[1], probe.after[2] + o)

\* what the scanner gave is the dot search resumed at offset o of the text
ResumedAt(o) ==
    LET found == find_dot_after(lines, ScanPos(o)[1], ScanPos(o)[2])
    IN  IF found = None THEN probe.to_send = None
        ELSE probe.to_send # None /\ probe.to_send.stop = found

\* C23 as stated: a run of three or more dots ends the sentence at the
\* second dot of the run; exactly two dots do not end it and the search
\* resumes after both.
C23_EllipsisStopsAtSecondDot ==
    \A d \in 0..(IF probe = None THEN -1 ELSE Len(TextFrom(lines, probe.after))) :
        FirstDotAt(d)
            => LET t == TextFrom(lines, probe.after)
               IN  /\ Slice(t, d, d + 3) = <<".", ".", ".">>
                       => /\ probe.to_send # None
                          /\ probe.to_send.stop = ScanPos(d + 1)
                   /\ (Slice(t, d, d + 2) = <<".", ".">> /\ Slice(t, d, d + 3) # <<".", ".", ".">>)
                       => ResumedAt(d + 2)

\* C23 amended: a run of three or more dots ends the sentence at the third
\* dot of the run, two columns after its first dot, so that the sentence
\* holds "..."; exactly two dots do not end it and the search resumes after
\* both.
C23_EllipsisStopsAtThirdDot ==
    \A d \in 0..(IF probe = None THEN -1 ELSE Len(TextFrom(lines, probe.after))) :
        FirstDotAt(d)
            => LET t == TextFrom(lines, probe.after)
               IN  /\ Slice(t, d, d + 3) = <<".", ".", ".">>
                       => /\ probe.to_send # None
                          /\ probe.to_send.stop = ScanPos(d + 2)
                   /\ (Slice(t, d, d + 2) = <<".", ".">> /\ Slice(t, d, d + 3) # <<".", ".", ".">>)
                       => ResumedAt(d + 2)

\* "a... b." scanned from its start: the sentence stops at the third dot
C23_Witness ==
    /\ lines = Ellipsis
    /\ FirstDotAt(1)
    /\ probe.after = <<0, 0>>
    /\ probe.to_send # None
    /\ probe.to_send.stop = <<0, 3>>

\* the offset in text t of its first character, from character i on, that is
\* neither blank nor inside a comment depth deep; -1 when there is none
RECURSIVE FirstCode(_, _, _)
FirstCode(t, i, depth) ==
    LET two == IF i < Len(t) THEN <<t[i], t[i + 1]>> ELSE <<>>
    IN  IF i > Len(t) THEN -1
        ELSE IF two = COMMENT_OPEN THEN FirstCode(t, i + 2, depth + 1)
        ELSE IF depth > 0
        THEN FirstCode(t, IF two = COMMENT_CLOSE THEN i + 2 ELSE i + 1,
                       IF two = COMMENT_CLOSE THEN depth - 1 ELSE depth)
        ELSE IF t[i] \in Whitespace THEN FirstCode(t, i + 1, 0)
        ELSE i - 1

\* the scanner was applied to a text whose first character after blanks and
\* comments, at offset o, is a bullet character and not the "*" of a "*)"
BulletAt(o) ==
    /\ probe # None
    /\ probe.fn = "get_message_range"
    /\ o = FirstCode(TextFrom(lines, probe.after), 1, 0)
    /\ o # -1
    /\ TextFrom(lines, probe.after)[o + 1] \in {"{", "}", "-", "+", "*"}
    /\ Slice(TextFrom(lines, probe.after), o, o + 2) # COMMENT_CLOSE

\* C24: when the first character after blanks and comments is a bullet
\* character (and does not begin a "*)"), the scanner returns a sentence that
\* stops in the bullet token and no '.' is looked for: for '-', '+' or '*'
\* at the last character of the longest run of that same character, for '{'
\* or '}' at that one character even when it is repeated.
C24_BulletTokenOnly ==
    \A o \in 0..(IF probe = None THEN -1 ELSE Len(TextFrom(lines, probe.after))) :
        BulletAt(o)
            => LET t == TextFrom(lines, probe.after)
                   c == t[o + 1]
                   run == {e \in o..(Len(t) - 1) : \A k \in o..e : t[k + 1] = c}
                   last == CHOOSE e \in run : \A f \in run : f <= e
               IN  /\ probe.to_send # None
                   /\ probe.to_send.stop = ScanPos(IF c \in {"{", "}"} THEN o ELSE last)

\* " (*-*)" and " ++-a." scanned from the start: after the comment and the
\* blanks the sentence is the token "++", which the "-" ends
C24_Witness ==
    /\ lines = BulletAfterComment
    /\ BulletAt(8)
    /\ probe.after = <<0, 0>>
    /\ probe.to_send # None
    /\ probe.to_send.stop = <<1, 2>>

\* the offset just after the comment of msg that opens at offset o outside
\* every comment: the first offset after o outside every comment or where
\* the next such comment opens, or the end of msg
CommentEnd(msg, o) ==
    LET after == {j \in (o + 1)..(Len(msg) - 1) :
                      Comments(msg).out[j + 1] \/ j \in Comments(msg).opens}
    IN  IF after = {} THEN Len(msg)
        ELSE CHOOSE j \in after : \A k \in after : j <= k

\* C25: for every text whose comments are properly nested, the stripper
\* records one span for each comment that is inside no other and none for
\* the comments inside it; the offset of a span is the offset in the text of
\* the "(*" of its comment and its length the number of characters from
\* there through the matching "*)"; the spans are in strictly increasing
\* order of offset and do not overlap.
C25_OneSpanPerTopLevelComment ==
    (Stripped /\ ProperlyNested(probe.message))
        => LET msg == probe.message
               com_pos == probe.com_pos
           IN  /\ Len(com_pos) = Cardinality(Comments(msg).opens)
               /\ \A i \in 1..Len(com_pos) :
                      /\ com_pos[i][1] \in Comments(msg).opens
                      /\ com_pos[i][2] = CommentEnd(msg, com_pos[i][1]) - com_pos[i][1]
               /\ \A i \in 1..(Len(com_pos) - 1) :
                      com_pos[i][1] + com_pos[i][2] <= com_pos[i + 1][1]

\* "a(*(*b*)*)c." has one span, of the outer comment
C25_Witness ==
    /\ Stripped
    /\ lines = NestedComment
    /\ ProperlyNested(probe.message)
    /\ probe.com_pos = << <<1, 9>> >>

\* rewind(steps) was called and has returned
RewindReturned ==
    /\ pc = "done"
    /\ ghost.op = "rewind"
    /\ ghost.outcome = "returned"

\* stack without its last n endpoints, empty when it has no more than n
WithoutLast(stack, n) == SubSeq(stack, 1, Len(stack) - n)

\* C26 as stated: rewind(steps) makes no prover call when steps < 1 or the
\* stack is empty; it removes exactly the last steps + extra endpoints when
\* the prover reports success with extra further steps; it leaves the stack
\* unchanged when the prover reports failure or raises an error.
C26_StackChangesOnlyOnSuccess ==
    RewindReturned
        => LET steps == ghost.arg[1]
               resp == ghost.arg[2]
           IN  /\ (steps < 1 \/ ghost.pre = <<>>)
                      => (resp = NoCall /\ endpoints = ghost.pre)
               /\ resp.kind = "ok"
                      => endpoints = WithoutLast(ghost.pre, steps + resp.extra)
               /\ resp.kind \in {"no", "error"} => endpoints = ghost.pre

\* C26 amended: rewind(steps) makes no prover call and leaves the stack
\* unchanged when steps < 1 or the stack is empty.  Otherwise, when the
\* prover reports success with extra further steps, exactly the last
\* steps + extra endpoints are removed (all of them if fewer remain) and the
\* others are unchanged, and when it reports failure the stack is unchanged,
\* as long as the goals query of the refresh that follows does not raise
\* CoqtopError; when the prover call or that goals query raises CoqtopError,
\* Coqtail is stopped and the stack is emptied.
C26_StackEmptiedOnError ==
    RewindReturned
        => LET steps == ghost.arg[1]
               resp == ghost.arg[2]
           IN  /\ (steps < 1 \/ ghost.pre = <<>>)
                      => (resp = NoCall /\ endpoints = ghost.pre /\ coqtop # None)
               /\ (steps >= 1 /\ ghost.pre # <<>>) => resp # NoCall
               /\ (resp.kind = "ok" /\ resp.goals = "ok")
                      => (endpoints = WithoutLast(ghost.pre, steps + resp.extra)
                             /\ coqtop # None)
               /\ (resp.kind = "no" /\ resp.goals = "ok")
                      => (endpoints = ghost.pre /\ coqtop # None)
               /\ (resp.kind = "error" \/ resp.goals = "error")
                      => (endpoints = <<>> /\ send_queue = <<>> /\ coqtop = None)

\* the prover call of a rewind raised CoqtopError with endpoints on the
\* stack: the stack is empty and Coqtail stopped
C26_Witness ==
    /\ RewindReturned
    /\ ghost.arg[2].kind = "error"
    /\ ghost.pre # <<>>
    /\ endpoints = <<>>
    /\ coqtop = None

\* stack a is the beginning of stack b
IsPrefix(a, b) == Len(a) <= Len(b) /\ a = SubSeq(b, 1, Len(a))

\* C27: every transition changes the endpoint stack at its end only: the old
\* stack begins the new one (a push) or the new one begins the old one (a
\* rewind or a reset); no endpoint is changed in place or taken from the
\* middle.
C27_StackChangesAtTailOnly ==
    [][IsPrefix(endpoints, endpoints') \/ IsPrefix(endpoints', endpoints)]_vars

\* a rewind has removed the last of two endpoints and kept the first
C27_Witness ==
    /\ pc = "done"
    /\ ghost.op = "rewind"
    /\ Len(ghost.pre) = 2
    /\ ghost.pre[1] # ghost.pre[2]
    /\ endpoints = <<ghost.pre[1]>>

\* C28: the error region is set only for a while: it is set in the loop of
\* send_until_fail by a failed dispatch and cleared by the next
\* reset_color(), so that it is None whenever step, to_cursor, rewind or
\* send_until_fail (or another call of the editor) returns.
C28_ErrorRegionTransient ==
    /\ error_at # None => Failed
    /\ (pc = "done" /\ ghost.outcome = "returned") => error_at = None
    /\ pc = "idle" => error_at = None

\* a step() whose dispatch failed has returned: the error region that the
\* failure set is cleared
C28_Witness ==
    /\ pc = "done"
    /\ ghost.op = "step"
    /\ ghost.outcome = "returned"
    /\ ghost.run # NoRun
    /\ ghost.run.results = <<"fail">>
    /\ ghost.run.goals = "ok"
    /\ error_at = None

\* to_top() was called and has returned
ToTopReturned ==
    /\ pc = "done"
    /\ ghost.op = "to_top"
    /\ ghost.outcome = "returned"

\* C29: every endpoint has a column of 1 or more, so that to_top(), which
\* calls rewind_to(0, 1), asks the prover to rewind as many steps as the
\* stack has endpoints; after a successful rewind the stack is empty
\* whatever it held, and with an empty stack no prover call is made.
C29_ToTopEmptiesStack ==
    /\ \A i \in 1..Len(endpoints) : endpoints[i][1] >= 0 /\ endpoints[i][2] >= 1
    /\ ToTopReturned
           => LET rt == ghost.rt
              IN  /\ rt.pos = <<0, 1>>
                  /\ rt.pre = ghost.pre
                  /\ AtOrAfter(rt.pre, rt.pos) = Len(rt.pre)
                  /\ rt.pre = <<>> => (rt.resp = NoCall /\ endpoints = <<>>)
                  /\ rt.pre # <<>> => rt.resp # NoCall
                  /\ rt.resp.kind = "ok" => endpoints = <<>>

\* to_top() with two endpoints on the stack and a prover that reports
\* success: the stack is empty
C29_Witness ==
    /\ ToTopReturned
    /\ Len(ghost.pre) = 2
    /\ ghost.rt.resp.kind = "ok"
    /\ ghost.rt.resp.extra = 0
    /\ ghost.rt.resp.goals = "ok"
    /\ endpoints = <<>>
    /\ coqtop # None

\* a loop of the scanner is running, has returned
LoopRunning == probe # None /\ probe.loop.at = "running"

LoopReturned == probe # None /\ probe.loop.at = "returned"

\* a turn after which the loop goes on has moved the scan position forward
TurnAdvances ==
    (LoopRunning /\ probe'.loop.at = "running")
        => PosLT(<<probe.loop.sline, probe.loop.scol>>,
                 <<probe'.loop.sline, probe'.loop.scol>>)

\* what the function called gives, computed at once
LoopResult ==
    IF probe.fn = "find_next_sentence"
    THEN find_next_sentence(lines, probe.after[1], probe.after[2])
    ELSE IF probe.fn = "find_dot_after"
    THEN find_dot_after(lines, probe.after[1], probe.after[2])
    ELSE IF probe.fn = "skip_comment"
    THEN skip_comment(lines, probe.after[1], probe.after[2])
    ELSE skip_str(lines, probe.after[1], probe.after[2])

\* C30: on every buffer and from every position the loops of the scanner
\* (the skip of blanks and comments, the dot search, the block skipper) end:
\* a running loop always makes a next turn, every turn moves the scan
\* position forward or returns, and the turns of a call are no more than
\* the characters from the position it was given to the end of the text,
\* and two; a stop position that the scanner returns is at or after the
\* position it was given, so that the endpoint made of it, one column after,
\* is after that position.
C30_ScannerTerminates ==
    /\ [][TurnAdvances]_vars
    /\ [](LoopRunning => LoopNext.at \in {"running", "returned"})
    /\ [](probe # None => probe.turns <= Len(TextFrom(lines, probe.after)) + 2)
    /\ [](LoopReturned
            => /\ probe.loop.found = LoopResult
               /\ (probe.fn = "find_next_sentence" /\ probe.loop.found # None)
                      => /\ PosLE(probe.after, probe.loop.found)
                         /\ PosLT(probe.after,
                                  <<probe.loop.found[1], probe.loop.found[2] + 1>>))

\* the scanner has returned the stop of a sentence after skipping the
\* comments of a buffer, one turn for each
C30_Witness ==
    /\ LoopReturned
    /\ probe.fn = "find_next_sentence"
    /\ lines = BulletAfterComment
    /\ probe.after = <<0, 0>>
    /\ probe.turns = 2
    /\ probe.loop.found = <<1, 2>>

====
